---- MODULE Spec2Model ----
(***************************************************************************)
(* A model of the weed-tracker application (class WeedTracker): the        *)
(* in-memory entries / goals / settings / alternatives, the localStorage   *)
(* documents behind them, the validators, the import / export pipeline and *)
(* the confirmation modal.                                                 *)
(***************************************************************************)
EXTENDS Integers, Sequences, FiniteSets, TLC

VARIABLES
    loaded,             \* TRUE once the page has run `new WeedTracker()`
    now,                \* the wall clock, Date.now()
    mode,               \* how localStorage behaves: "ok", "full", "blocked"
    entries,            \* this.entries
    goals,              \* this.goals
    settings,           \* this.settings
    alternatives,       \* this.alternatives
    store,              \* the localStorage documents
    confirmModal,       \* #confirmModal: shown or not, the listener of #confirmButton,
                        \* and the pending one it replaced
    currentChartIndex,  \* this.currentChartIndex
    chartListeners,     \* click listeners attached to #compactChart
    exportFile,         \* the text of the file exportData last downloaded
    notices,            \* the showMessage calls of the last handler, in order
    lastOp,             \* the handler that ran last
    budget,             \* handlers the behaviour may still run
    imported,           \* history: the times at which performImport replaced the data
    form,               \* history: what the add form held when addEntry last ran
    arg,                \* the argument of a direct call of validateEntry
    ret                 \* whether the call was made, and what it returned

vars == <<loaded, now, mode, entries, goals, settings, alternatives, store,
          confirmModal, currentChartIndex, chartListeners, exportFile,
          notices, lastOp, budget, imported, form, arg, ret>>

memVars == <<entries, goals, settings, alternatives>>
chartVars == <<currentChartIndex, chartListeners>>
auxVars == <<imported, form, arg, ret>>

-----------------------------------------------------------------------------
(* Bounds of the model.                                                    *)

\* Handlers run per behaviour (each handler advances the clock by one).
MaxOps == 3
\* Handlers run per behaviour of the import-only specification.
MaxImportOps == 14
\* Entries the add form may grow the list to.
MaxEntries == 2
\* Handlers run per behaviour of the add-form specification.
MaxAddOps == 2
\* Handlers run per behaviour of the import-then-clear specification.
MaxClearOps == 4
\* Entries in the lists the dashboard functions are studied on.
MaxStatEntries == 3
MaxChartOps == 4

\* The clock at the start of a behaviour.  Date.now() is an epoch-millisecond
\* count whose decimal form has the same number of digits throughout a
\* session; two digits stand for that here.
T0 == 10

-----------------------------------------------------------------------------
(* JavaScript values.  A value carries its type tag t, a number n and a    *)
(* string s (a sequence of characters).  "isodate" is a string in a date   *)
(* format that Date parses to the instant n.                               *)

V(t, n, s) == [t |-> t, n |-> n, s |-> s]
Undefined == V("undefined", 0, <<>>)
Null == V("null", 0, <<>>)
NaN == V("NaN", 0, <<>>)
Num(n) == V("number", n, <<>>)
Str(s) == V("string", 0, s)
IsoDate(ms) == V("isodate", ms, <<>>)
Bool(b) == V("boolean", IF b THEN 1 ELSE 0, <<>>)

typeof(v) ==
    CASE v.t \in {"number", "NaN"} -> "number"
      [] v.t \in {"string", "isodate"} -> "string"
      [] v.t = "boolean" -> "boolean"
      [] v.t = "undefined" -> "undefined"
      [] OTHER -> "object"

\* ToBoolean: what `!x` negates.
Truthy(v) ==
    CASE v.t \in {"undefined", "null", "NaN"} -> FALSE
      [] v.t = "number" -> v.n # 0
      [] v.t = "string" -> v.s # <<>>
      [] v.t = "boolean" -> v.n = 1
      [] OTHER -> TRUE

\* x < k and x <= k on a value of type number: false for NaN.
NumLt(v, k) == v.t = "number" /\ v.n < k
NumLe(v, k) == v.t = "number" /\ v.n <= k
NumGt(v, k) == v.t = "number" /\ v.n > k

\* new Date(x).getTime(): the instant, or "invalid" (NaN).
DateOf(v) ==
    CASE v.t = "isodate" -> [valid |-> TRUE, ms |-> v.n]
      [] v.t = "number" -> [valid |-> TRUE, ms |-> v.n]
      [] v.t = "boolean" -> [valid |-> TRUE, ms |-> v.n]
      [] v.t = "null" -> [valid |-> TRUE, ms |-> 0]
      [] OTHER -> [valid |-> FALSE, ms |-> 0]

\* A date check that passes everything.
isValidDateOfAnything(dateString) == TRUE

isValidDate(dateString) == DateOf(dateString).valid

\* Strings of the program.
joint == <<"j", "o", "i", "n", "t">>
bong == <<"b", "o", "n", "g">>
pipe == <<"p", "i", "p", "e">>
cigarette == <<"c", "i", "g", "a", "r", "e", "t", "t", "e">>
vape == <<"v", "a", "p", "e">>
edible == <<"e", "d", "i", "b", "l", "e">>
other == <<"o", "t", "h", "e", "r">>
Methods == {joint, bong, pipe, cigarette, vape, edible, other}

great == <<"g", "r", "e", "a", "t">>
good == <<"g", "o", "o", "d">>
neutral == <<"n", "e", "u", "t", "r", "a", "l">>
bad == <<"b", "a", "d">>
terrible == <<"t", "e", "r", "r", "i", "b", "l", "e">>
Moods == {great, good, neutral, bad, terrible}

reduce == <<"r", "e", "d", "u", "c", "e">>
maintain == <<"m", "a", "i", "n", "t", "a", "i", "n">>
quit == <<"q", "u", "i", "t">>
stash == <<"s", "t", "a", "s", "h">>
GoalTypes == {reduce, maintain, quit, stash}

USD == <<"U", "S", "D">>

\* Strings no list of the program holds.
hookah == <<"h", "o", "o", "k", "a", "h">>
angry == <<"a", "n", "g", "r", "y">>
junk == <<"?", "?">>

-----------------------------------------------------------------------------
(* Records.  An object that lacks a field holds Undefined there; `kind`    *)
(* tells an object from the other JSON values a document may hold in its   *)
(* place.                                                                  *)

Entry(id, amount, method, notes, mood, timestamp, createdAt) ==
    [kind |-> "object", id |-> id, amount |-> amount, method |-> method,
     notes |-> notes, mood |-> mood, timestamp |-> timestamp,
     createdAt |-> createdAt]

NonEntry(kind) ==
    [kind |-> kind, id |-> Undefined, amount |-> Undefined, method |-> Undefined,
     notes |-> Undefined, mood |-> Undefined, timestamp |-> Undefined,
     createdAt |-> Undefined]

Goals(goalType, weeklyAmount, startDate, stashAmount, stashStartDate) ==
    [kind |-> "object", goalType |-> goalType, weeklyAmount |-> weeklyAmount,
     startDate |-> startDate, stashAmount |-> stashAmount,
     stashStartDate |-> stashStartDate]

NonGoals(kind) ==
    [kind |-> kind, goalType |-> Undefined, weeklyAmount |-> Undefined,
     startDate |-> Undefined, stashAmount |-> Undefined,
     stashStartDate |-> Undefined]

Settings(pricePerGram, currency) ==
    [kind |-> "object", pricePerGram |-> pricePerGram, currency |-> currency]

NonSettings(kind) ==
    [kind |-> kind, pricePerGram |-> Undefined, currency |-> Undefined]

Alternatives(isArray, triedItems, lastRefresh) ==
    [kind |-> "object", isArray |-> isArray, triedItems |-> triedItems,
     lastRefresh |-> lastRefresh]

NonAlternatives(kind) ==
    [kind |-> kind, isArray |-> FALSE, triedItems |-> <<>>, lastRefresh |-> Undefined]

\* `!x || typeof x !== 'object'`: objects and arrays pass.
IsObject(x) == x.kind \in {"object", "array"}

getDefaultGoals == Goals(Str(reduce), Num(0), Null, Num(0), Null)

getDefaultSettings == Settings(Num(10), Str(USD))

getDefaultAlternatives == Alternatives(TRUE, <<>>, Null)

-----------------------------------------------------------------------------
(* Data validation methods.                                                *)

validateEntry(entry) ==
    IF ~IsObject(entry) THEN FALSE
    ELSE IF ~Truthy(entry.id) \/ typeof(entry.id) # "number" THEN FALSE
    ELSE IF ~Truthy(entry.amount) \/ typeof(entry.amount) # "number"
            \/ NumLe(entry.amount, 0) THEN FALSE
    ELSE IF ~Truthy(entry.method) \/ typeof(entry.method) # "string" THEN FALSE
    ELSE IF Truthy(entry.notes) /\ typeof(entry.notes) # "string" THEN FALSE
    ELSE IF Truthy(entry.mood) /\ typeof(entry.mood) # "string" THEN FALSE
    ELSE IF ~Truthy(entry.timestamp) \/ ~isValidDate(entry.timestamp) THEN FALSE
    ELSE TRUE

validateGoals(g) ==
    IF ~IsObject(g) THEN FALSE
    ELSE IF typeof(g.weeklyAmount) # "number" \/ NumLt(g.weeklyAmount, 0) THEN FALSE
    ELSE IF ~Truthy(g.goalType) \/ g.goalType.t # "string"
            \/ g.goalType.s \notin GoalTypes THEN FALSE
    ELSE IF g.stashAmount # Undefined
            /\ (typeof(g.stashAmount) # "number" \/ NumLt(g.stashAmount, 0)) THEN FALSE
    ELSE TRUE

validateSettings(s) ==
    IF ~IsObject(s) THEN FALSE
    ELSE IF typeof(s.pricePerGram) # "number" \/ NumLt(s.pricePerGram, 0) THEN FALSE
    ELSE IF ~Truthy(s.currency) \/ typeof(s.currency) # "string" THEN FALSE
    ELSE TRUE

validateAlternatives(a) ==
    IF ~IsObject(a) THEN FALSE
    ELSE IF ~a.isArray THEN FALSE
    ELSE TRUE

-----------------------------------------------------------------------------
(* Sequences and strings.                                                  *)

RECURSIVE SelectValid(_)
\* parsed.filter(entry => this.validateEntry(entry))
SelectValid(items) ==
    IF items = <<>> THEN <<>>
    ELSE IF validateEntry(Head(items))
         THEN <<Head(items)>> \o SelectValid(Tail(items))
         ELSE SelectValid(Tail(items))

TimeOf(entry) == DateOf(entry.timestamp).ms

RECURSIVE InsertByTimestamp(_, _)
\* Where a stable sort puts e, which came after all of `sorted`: behind every
\* element the comparator does not order after it.
InsertByTimestamp(e, sorted) ==
    IF sorted = <<>> THEN <<e>>
    ELSE IF TimeOf(Head(sorted)) >= TimeOf(e)
         THEN <<Head(sorted)>> \o InsertByTimestamp(e, Tail(sorted))
         ELSE <<e>> \o sorted

RECURSIVE SortFrom(_, _)
SortFrom(done, rest) ==
    IF rest = <<>> THEN done
    ELSE SortFrom(InsertByTimestamp(Head(rest), done), Tail(rest))

\* list.sort((a, b) => new Date(b.timestamp) - new Date(a.timestamp)): stable,
\* most recent first.
sortByTimestamp(list) == SortFrom(<<>>, list)

RECURSIVE RemoveAngles(_)
\* .replace(/[<>]/g, '')
RemoveAngles(s) ==
    IF s = <<>> THEN <<>>
    ELSE IF Head(s) \in {"<", ">"} THEN RemoveAngles(Tail(s))
    ELSE <<Head(s)>> \o RemoveAngles(Tail(s))

RECURSIVE TrimStart(_)
TrimStart(s) == IF s # <<>> /\ Head(s) = " " THEN TrimStart(Tail(s)) ELSE s

RECURSIVE TrimEnd(_)
TrimEnd(s) ==
    IF s # <<>> /\ s[Len(s)] = " " THEN TrimEnd(SubSeq(s, 1, Len(s) - 1)) ELSE s

\* String.prototype.trim
Trim(s) == TrimEnd(TrimStart(s))

\* String.prototype.substring(0, n)
Substring0(s, n) == SubSeq(s, 1, IF Len(s) < n THEN Len(s) ELSE n)

sanitizeInput(input, maxLength) ==
    IF input.t # "string" THEN Str(<<>>)
    ELSE Str(Trim(Substring0(RemoveAngles(input.s), maxLength)))

Digits == <<"0", "1", "2", "3", "4", "5", "6", "7", "8", "9">>
IsDigit(c) == \E i \in 1..10 : Digits[i] = c
DigitValue(c) == (CHOOSE i \in 1..10 : Digits[i] = c) - 1

RECURSIVE LeadingDigits(_)
LeadingDigits(s) ==
    IF s # <<>> /\ IsDigit(Head(s)) THEN <<Head(s)>> \o LeadingDigits(Tail(s))
    ELSE <<>>

RECURSIVE DigitsValue(_)
DigitsValue(ds) ==
    IF ds = <<>> THEN 0
    ELSE 10 * DigitsValue(SubSeq(ds, 1, Len(ds) - 1)) + DigitValue(ds[Len(ds)])

\* parseFloat on the text of a form field: leading blanks, a sign, digits;
\* NaN when no digit follows.  Fields hold whole numbers in this model.
parseFloat(field) ==
    LET s == TrimStart(field.s)
        signed == s # <<>> /\ Head(s) \in {"-", "+"}
        ds == LeadingDigits(IF signed THEN Tail(s) ELSE s)
    IN  IF field.t # "string" \/ ds = <<>> THEN NaN
        ELSE IF signed /\ Head(s) = "-" THEN Num(0 - DigitsValue(ds))
        ELSE Num(DigitsValue(ds))

RECURSIVE Decimal(_)
\* The decimal digits of n, as `${n}` writes them.
Decimal(n) ==
    IF n < 10 THEN <<Digits[n + 1]>>
    ELSE Decimal(n \div 10) \o <<Digits[(n % 10) + 1]>>

RECURSIVE StringLess(_, _)
\* a < b on strings: by code unit, a proper prefix first.
StringLess(a, b) ==
    IF b = <<>> THEN FALSE
    ELSE IF a = <<>> THEN TRUE
    ELSE IF Head(a) # Head(b)
         THEN DigitValue(Head(a)) < DigitValue(Head(b))  \* the keys differ in digits only
    ELSE StringLess(Tail(a), Tail(b))

-----------------------------------------------------------------------------
(* JSON.                                                                   *)

\* JSON.stringify writes a NaN as null and leaves out an undefined field.
JSONField(v) == IF v.t = "NaN" THEN Null ELSE v

JSONObject(o) == [f \in DOMAIN o |-> IF f = "kind" THEN o[f] ELSE JSONField(o[f])]

JSONList(list) == [i \in 1..Len(list) |-> JSONObject(list[i])]

\* A text: absent (getItem gives null), text that JSON.parse throws on, or
\* the JSON text of the value v.
Text(v) == [k |-> "json", v |-> v]

EntriesDoc(isArray, items) == [isArray |-> isArray, items |-> items]

AbsentEntries == [k |-> "absent", v |-> EntriesDoc(FALSE, <<>>)]
AbsentGoals == [k |-> "absent", v |-> NonGoals("null")]
AbsentSettings == [k |-> "absent", v |-> NonSettings("null")]
AbsentAlternatives == [k |-> "absent", v |-> NonAlternatives("null")]
GarbageEntries == [k |-> "garbage", v |-> EntriesDoc(FALSE, <<>>)]
GarbageGoals == [k |-> "garbage", v |-> NonGoals("null")]
GarbageSettings == [k |-> "garbage", v |-> NonSettings("null")]
GarbageAlternatives == [k |-> "garbage", v |-> NonAlternatives("null")]

\* JSON.stringify(this.entries), ...(this.goals), ...
StringifyEntries(list) == Text(EntriesDoc(TRUE, JSONList(list)))
StringifyObject(o) == Text(JSONObject(o))
StringifyAlternatives(a) == Text([a EXCEPT !.lastRefresh = JSONField(a.lastRefresh)])

\* An export or import document.
Document(kind, isArray, items, g, s, exportDate) ==
    [kind |-> kind, isArray |-> isArray, entries |-> items, goals |-> g,
     settings |-> s, exportDate |-> exportDate]

NonDocument(kind) ==
    Document(kind, FALSE, <<>>, NonGoals("undefined"), NonSettings("undefined"),
             Undefined)

AbsentFile == [k |-> "absent", v |-> NonDocument("null")]
GarbageFile == [k |-> "garbage", v |-> NonDocument("null")]

\* A backup record.
Backup(list, g, s, backupDate) ==
    [entries |-> list, goals |-> g, settings |-> s, backupDate |-> backupDate]

-----------------------------------------------------------------------------
(* localStorage.  In mode "full" every setItem throws (quota exhausted)    *)
(* while reads and removals work; in mode "blocked" every access throws.   *)

Modes == {"ok", "full", "blocked"}
SetItemThrows(m) == m \in {"full", "blocked"}
GetItemThrows(m) == m = "blocked"
RemoveItemThrows(m) == m = "blocked"

EmptyStore ==
    [entries |-> AbsentEntries, goals |-> AbsentGoals, settings |-> AbsentSettings,
     alternatives |-> AbsentAlternatives, backups |-> <<>>]

\* setItem then removeItem of '__localStorage_test__': the store is as before.
isLocalStorageAvailable(m) == ~SetItemThrows(m) /\ ~RemoveItemThrows(m)

Msg(type, text) == [type |-> type, text |-> text]

\* A load that sorts what is stored without validating the records.
loadEntriesUnfiltered(st, m) ==
    IF ~isLocalStorageAvailable(m) THEN <<>>
    ELSE IF GetItemThrows(m) THEN <<>>
    ELSE IF st.entries.k = "absent" THEN <<>>
    ELSE IF st.entries.k = "garbage" THEN <<>>
    ELSE IF ~st.entries.v.isArray THEN <<>>
    ELSE sortByTimestamp(st.entries.v.items)

loadEntries(st, m) ==
    IF ~isLocalStorageAvailable(m) THEN <<>>
    ELSE IF GetItemThrows(m) THEN <<>>
    ELSE IF st.entries.k = "absent" THEN <<>>
    ELSE IF st.entries.k = "garbage" THEN <<>>
    ELSE IF ~st.entries.v.isArray THEN <<>>
    ELSE sortByTimestamp(SelectValid(st.entries.v.items))

\* A saver gives the store it leaves, the messages it shows and the value it
\* returns to its caller; none of the four has a return statement.
saveEntries(st, m, list) ==
    IF ~isLocalStorageAvailable(m) THEN [store |-> st, msgs |-> <<>>, ret |-> Undefined]
    ELSE IF SetItemThrows(m) THEN [store |-> st, msgs |-> <<>>, ret |-> Undefined]
    ELSE [store |-> [st EXCEPT !.entries = StringifyEntries(list)], msgs |-> <<>>,
          ret |-> Undefined]

\* A load of the goals that trusts what is stored.
loadGoalsUnvalidated(st, m) ==
    IF GetItemThrows(m) \/ st.goals.k # "json" THEN [ret |-> getDefaultGoals, msgs |-> <<>>]
    ELSE [ret |-> st.goals.v, msgs |-> <<>>]

\* A loader gives the value it returns and the messages it shows.
loadGoals(st, m) ==
    IF GetItemThrows(m) \/ st.goals.k = "garbage"
    THEN [ret |-> getDefaultGoals,
          msgs |-> <<Msg("error", "Failed to load goal settings. Using defaults.")>>]
    ELSE IF st.goals.k = "absent" THEN [ret |-> getDefaultGoals, msgs |-> <<>>]
    ELSE [ret |-> IF validateGoals(st.goals.v) THEN st.goals.v ELSE getDefaultGoals,
          msgs |-> <<>>]

saveGoals(st, m, g) ==
    IF SetItemThrows(m)
    THEN [store |-> st,
          msgs |-> <<Msg("error",
              "Failed to save goal settings. Please check your browser storage.")>>,
          ret |-> Undefined]
    ELSE [store |-> [st EXCEPT !.goals = StringifyObject(g)], msgs |-> <<>>,
          ret |-> Undefined]

loadSettings(st, m) ==
    IF GetItemThrows(m) \/ st.settings.k = "garbage"
    THEN [ret |-> getDefaultSettings,
          msgs |-> <<Msg("error", "Failed to load settings. Using defaults.")>>]
    ELSE IF st.settings.k = "absent" THEN [ret |-> getDefaultSettings, msgs |-> <<>>]
    ELSE [ret |-> IF validateSettings(st.settings.v) THEN st.settings.v
                  ELSE getDefaultSettings,
          msgs |-> <<>>]

saveSettings(st, m, s) ==
    IF SetItemThrows(m)
    THEN [store |-> st,
          msgs |-> <<Msg("error",
              "Failed to save settings. Please check your browser storage.")>>,
          ret |-> Undefined]
    ELSE [store |-> [st EXCEPT !.settings = StringifyObject(s)], msgs |-> <<>>,
          ret |-> Undefined]

loadAlternatives(st, m) ==
    IF GetItemThrows(m) \/ st.alternatives.k = "garbage" THEN getDefaultAlternatives
    ELSE IF st.alternatives.k = "absent" THEN getDefaultAlternatives
    ELSE IF validateAlternatives(st.alternatives.v) THEN st.alternatives.v
    ELSE getDefaultAlternatives

\* A save that writes nothing.
saveAlternativesNowhere(st, m, a) == [store |-> st, msgs |-> <<>>, ret |-> Undefined]

saveAlternatives(st, m, a) ==
    IF SetItemThrows(m) THEN [store |-> st, msgs |-> <<>>, ret |-> Undefined]
    ELSE [store |-> [st EXCEPT !.alternatives = StringifyAlternatives(a)],
          msgs |-> <<>>, ret |-> Undefined]

-----------------------------------------------------------------------------
(* Export / import.                                                        *)

\* Program constants.
MaxAmount == 1000
DefaultMaxLength == 1000
KeepBackups == 5
MaxFileSize == 10485760

validateExportData(data) ==
    IF ~IsObject(data) THEN FALSE
    ELSE IF ~data.isArray THEN FALSE
    ELSE IF ~validateGoals(data.goals) THEN FALSE
    ELSE IF ~validateSettings(data.settings) THEN FALSE
    ELSE IF ~Truthy(data.exportDate) \/ ~isValidDate(data.exportDate) THEN FALSE
    ELSE TRUE

\* validateImportData without the loop over the entries.
validateImportDataSkippingEntries(data) ==
    IF ~IsObject(data) THEN FALSE
    ELSE IF ~data.isArray THEN FALSE
    ELSE IF ~validateGoals(data.goals) THEN FALSE
    ELSE IF ~validateSettings(data.settings) THEN FALSE
    ELSE TRUE

validateImportData(data) ==
    IF ~IsObject(data) THEN FALSE
    ELSE IF ~data.isArray THEN FALSE
    ELSE IF ~validateGoals(data.goals) THEN FALSE
    ELSE IF ~validateSettings(data.settings) THEN FALSE
    ELSE IF \E i \in 1..Len(data.entries) : ~validateEntry(data.entries[i]) THEN FALSE
    ELSE TRUE

\* A stringify that loses the settings of the document.
StringifyDocumentWithoutSettings(d) ==
    Text(Document(d.kind, d.isArray, JSONList(d.entries), JSONObject(d.goals),
                  NonSettings("undefined"), JSONField(d.exportDate)))

\* JSON.stringify(data, null, 2)
StringifyDocument(d) ==
    Text(Document(d.kind, d.isArray, JSONList(d.entries), JSONObject(d.goals),
                  JSONObject(d.settings), JSONField(d.exportDate)))

\* A picked file: its type or name says JSON or not, its size, its text.
File(isJson, size, text) == [isJson |-> isJson, size |-> size, text |-> text]

\* Place of key k in backupKeys.sort().reverse().
BackupIndex(k, keys) ==
    Cardinality({j \in keys : StringLess(Decimal(k), Decimal(j))})

\* A cleanup that sorts the keys but does not reverse them.
cleanupOldBackupsUnreversed(st, m) ==
    IF GetItemThrows(m) THEN st
    ELSE LET keys == DOMAIN st.backups
             kept == {k \in keys :
                         Cardinality({j \in keys : StringLess(Decimal(j), Decimal(k))})
                             < KeepBackups}
         IN  [st EXCEPT !.backups = [k \in kept |-> st.backups[k]]]

cleanupOldBackups(st, m) ==
    IF GetItemThrows(m) THEN st
    ELSE LET keys == DOMAIN st.backups
             kept == {k \in keys : BackupIndex(k, keys) < KeepBackups}
         IN  [st EXCEPT !.backups = [k \in kept |-> st.backups[k]]]

\* localStorage.setItem(`weedTrackerBackup_${t}`, JSON.stringify(backupData))
putBackup(st, t, list, g, s) ==
    [st EXCEPT !.backups =
        [k \in (DOMAIN st.backups) \cup {t} |->
            IF k = t THEN Backup(JSONList(list), JSONObject(g), JSONObject(s), IsoDate(t))
            ELSE st.backups[k]]]

\* An import that replaces the data first and snapshots afterwards, and goes
\* on when the snapshot cannot be written.
performImportBackingUpLate(doc, list, g, s, st, m, t) ==
    LET s1 == saveEntries(st, m, doc.entries)
        s2 == saveGoals(s1.store, m, doc.goals)
        s3 == saveSettings(s2.store, m, doc.settings)
        backed == IF SetItemThrows(m) THEN s3.store
                  ELSE putBackup(s3.store, t, doc.entries, doc.goals, doc.settings)
    IN  [applied |-> TRUE, entries |-> doc.entries, goals |-> doc.goals,
         settings |-> doc.settings,
         store |-> cleanupOldBackups(backed, m),
         msgs |-> s2.msgs \o s3.msgs
                  \o <<Msg("success", "Successfully imported entries!")>>]

\* performImport at time t on the in-memory list, g, s: what it leaves.
performImport(doc, list, g, s, st, m, t) ==
    IF SetItemThrows(m)
    THEN [applied |-> FALSE, entries |-> list, goals |-> g, settings |-> s,
          store |-> st,
          msgs |-> <<Msg("error", "Failed to import data. Please try again.")>>]
    ELSE LET backed == putBackup(st, t, list, g, s)
             s1 == saveEntries(backed, m, doc.entries)
             s2 == saveGoals(s1.store, m, doc.goals)
             s3 == saveSettings(s2.store, m, doc.settings)
         IN  [applied |-> TRUE, entries |-> doc.entries, goals |-> doc.goals,
              settings |-> doc.settings,
              store |-> cleanupOldBackups(s3.store, m),
              msgs |-> s2.msgs \o s3.msgs
                       \o <<Msg("success", "Successfully imported entries!")>>]

-----------------------------------------------------------------------------
(* The dashboard.  Where these functions are studied the clock counts      *)
(* minutes: t is Date.getTime() / 60000, and timestamps fall on whole      *)
(* minutes as the datetime-local field of the add form gives them.  The    *)
(* local time zone has a fixed offset, taken as 0.                         *)

MinutesPerHour == 60
HoursPerDay == 24
MinutesPerDay == MinutesPerHour * HoursPerDay

\* date.setHours(0, 0, 0, 0); date.getTime()
StartOfDay(t) == t - (t % MinutesPerDay)

\* A day test that forgets to move the entry's time to midnight.
HasEntryAtMidnight(list, day) == \E i \in 1..Len(list) : TimeOf(list[i]) = day

\* this.entries.filter(entry => day of entry.timestamp === day).length > 0
HasEntryOn(list, day) ==
    \E i \in 1..Len(list) : StartOfDay(TimeOf(list[i])) = day

\* A walk that would start at yesterday when today holds no entry.
StreakFromTodayOrYesterday(list, currentDate) ==
    IF HasEntryOn(list, currentDate) \/ HasEntryOn(list, currentDate - MinutesPerDay)
    THEN 1 ELSE 0

RECURSIVE StreakFrom(_, _)
\* The while loop of calculateStreak from currentDate on.
StreakFrom(list, currentDate) ==
    IF HasEntryOn(list, currentDate)
    THEN 1 + StreakFrom(list, currentDate - MinutesPerDay)
    ELSE 0

calculateStreak(list, t) ==
    LET today == StartOfDay(t)
        hasEntryToday == HasEntryOn(list, today)
        streakCount == StreakFrom(list, today)
    IN  IF list = <<>> THEN [count |-> 0, type |-> "No streak yet"]
        ELSE IF streakCount = 0 THEN [count |-> 0, type |-> "No streak yet"]
        ELSE IF hasEntryToday
        THEN [count |-> streakCount, type |-> "day streak (including today)"]
        ELSE [count |-> streakCount, type |-> "day streak (last entry yesterday)"]

DaysPerWeek == 7

RECURSIVE SinceUnbounded(_, _, _)
\* A window filter that forgets the upper bound.
SinceUnbounded(list, from, to) ==
    IF list = <<>> THEN <<>>
    ELSE IF TimeOf(Head(list)) >= from
    THEN <<Head(list)>> \o SinceUnbounded(Tail(list), from, to)
    ELSE SinceUnbounded(Tail(list), from, to)

RECURSIVE Between(_, _, _)
\* this.entries.filter(entry => entryTime >= from && entryTime <= to)
Between(list, from, to) ==
    IF list = <<>> THEN <<>>
    ELSE IF TimeOf(Head(list)) >= from /\ TimeOf(Head(list)) <= to
    THEN <<Head(list)>> \o Between(Tail(list), from, to)
    ELSE Between(Tail(list), from, to)

RECURSIVE SumAmounts(_)
\* list.reduce((sum, entry) => sum + entry.amount, 0)
SumAmounts(list) ==
    IF list = <<>> THEN 0
    ELSE SumAmounts(SubSeq(list, 1, Len(list) - 1)) + list[Len(list)].amount.n

\* A quotient a / b, kept exact.
Ratio(a, b) == [num |-> a, den |-> b]

\* What updateTodayStats counts and sums before it formats them.
updateTodayStats(list, s, t) ==
    LET last24HoursEntries == Between(list, t - MinutesPerDay, t)
    IN  [count |-> Len(last24HoursEntries),
         amount |-> SumAmounts(last24HoursEntries),
         cost |-> SumAmounts(last24HoursEntries) * s.pricePerGram.n]

\* What updateWeekStats counts, sums and averages before it formats them.
updateWeekStats(list, t) ==
    LET weekEntries == Between(list, t - DaysPerWeek * MinutesPerDay, t)
        weekAmount == SumAmounts(weekEntries)
    IN  [count |-> Len(weekEntries),
         amount |-> weekAmount,
         avg |-> IF Len(weekEntries) > 0 THEN Ratio(weekAmount, DaysPerWeek)
                 ELSE Ratio(0, 1)]

Percent == 100

\* The width of #goalProgress in percent, and the text of #goalText: the
\* grams it names, written with one decimal, and the words around them.
GoalView(width, grams, words) == [width |-> width, grams |-> grams, words |-> words]

\* A progress that is not clamped at 100%.
progressUnclamped(used, limit) == Ratio(used * Percent, limit)

\* Math.min((used / limit) * 100, 100)
progress(used, limit) ==
    IF used * Percent <= Percent * limit THEN Ratio(used * Percent, limit)
    ELSE Ratio(Percent, 1)

RECURSIVE Since(_, _)
\* this.entries.filter(entry => entryDate >= stashStartDate)
Since(list, from) ==
    IF list = <<>> THEN <<>>
    ELSE IF from.valid /\ TimeOf(Head(list)) >= from.ms
    THEN <<Head(list)>> \o Since(Tail(list), from)
    ELSE Since(Tail(list), from)

updateStashProgress(list, g, t) ==
    LET stashStartDate == IF Truthy(g.stashStartDate) THEN DateOf(g.stashStartDate)
                          ELSE [valid |-> TRUE, ms |-> t]
        totalUsed == SumAmounts(Since(list, stashStartDate))
        remainingStash == g.stashAmount.n - totalUsed
    IN  IF ~Truthy(g.stashAmount) \/ NumLe(g.stashAmount, 0)
        THEN GoalView(Ratio(0, 1), 0, "Set a stash goal to track your weed supply")
        ELSE IF remainingStash > 0
        THEN GoalView(progress(totalUsed, g.stashAmount.n), remainingStash,
                      "g left in stash")
        ELSE GoalView(progress(totalUsed, g.stashAmount.n), 0 - remainingStash,
                      "Stash depleted by g")

updateGoalProgress(list, g, t) ==
    LET weekAmount == SumAmounts(Between(list, t - DaysPerWeek * MinutesPerDay, t))
        remaining == g.weeklyAmount.n - weekAmount
    IN  IF g.goalType = Str(stash) THEN updateStashProgress(list, g, t)
        ELSE IF ~Truthy(g.weeklyAmount) \/ NumLe(g.weeklyAmount, 0)
        THEN GoalView(Ratio(0, 1), 0, "Set a weekly goal to track progress")
        ELSE IF remaining > 0
        THEN GoalView(progress(weekAmount, g.weeklyAmount.n), remaining,
                      "g remaining this week")
        ELSE GoalView(progress(weekAmount, g.weeklyAmount.n), 0 - remaining,
                      "Goal exceeded by g")

\* 30.44 and 365.25 days, in hundredths of a day, and the cap of the value.
MonthInCentidays == 3044
YearInCentidays == 36525
MaxShown == 99

Min(a, b) == IF a < b THEN a ELSE b

RECURSIVE MostRecentFrom(_, _)
\* The for loop of calculateTimeSinceLastJoint: best so far, then the rest.
MostRecentFrom(best, rest) ==
    IF rest = <<>> THEN best
    ELSE IF TimeOf(Head(rest)) > TimeOf(best) THEN MostRecentFrom(Head(rest), Tail(rest))
    ELSE MostRecentFrom(best, Tail(rest))

\* The value and the unit shown, and the entry the text describes.
TimeSince(value, unit, entry) == [value |-> value, unit |-> unit, entry |-> entry]

calculateTimeSinceLastJoint(list, t) ==
    IF list = <<>> THEN TimeSince(0, "hours", NonEntry("undefined"))
    ELSE LET mostRecentEntry == MostRecentFrom(list[1], list)
             timeDiff == t - TimeOf(mostRecentEntry)
             minutes == timeDiff
             hours == timeDiff \div MinutesPerHour
             days == timeDiff \div MinutesPerDay
             months == (days * 100) \div MonthInCentidays
             years == (days * 100) \div YearInCentidays
         IN  IF years > 0 THEN TimeSince(Min(years, MaxShown), "years", mostRecentEntry)
             ELSE IF months > 0
             THEN TimeSince(Min(months, MaxShown), "months", mostRecentEntry)
             ELSE IF days > 0 THEN TimeSince(Min(days, MaxShown), "days", mostRecentEntry)
             ELSE IF hours > 0 THEN TimeSince(Min(hours, MaxShown), "hours", mostRecentEntry)
             ELSE TimeSince(Min(minutes, MaxShown), "minutes", mostRecentEntry)

-----------------------------------------------------------------------------
(* The confirmation modal.  showConfirmModal replaces #confirmButton by a  *)
(* clone, which drops its listeners, and attaches one that runs onConfirm. *)

Callback(kind, doc) == [kind |-> kind, doc |-> doc]
NoCallback == Callback("none", NonDocument("null"))
NoModal == [open |-> FALSE, onConfirm |-> NoCallback, replaced |-> "none"]

\* A modal that leaves the button alone while a confirmation is pending.
showConfirmModalKeepingPending(onConfirm) ==
    IF confirmModal.open THEN [confirmModal EXCEPT !.replaced = onConfirm.kind]
    ELSE [open |-> TRUE, onConfirm |-> onConfirm, replaced |-> "none"]

\* replaced: the callback that was dropped with the old button while its
\* modal was still open, if any.
showConfirmModal(onConfirm) ==
    [open |-> TRUE, onConfirm |-> onConfirm,
     replaced |-> IF confirmModal.open THEN confirmModal.onConfirm.kind ELSE "none"]

-----------------------------------------------------------------------------
(* Handlers.  Each runs to completion; the clock moves on between two.     *)

Handler(name) ==
    /\ loaded
    /\ budget > 0
    /\ budget' = budget - 1
    /\ now' = now + 1
    /\ lastOp' = name

\* new WeedTracker() on page load: the loads, then init().
Constructor ==
    /\ loaded => budget > 0
    /\ budget' = IF loaded THEN budget - 1 ELSE budget
    /\ now' = now + 1
    /\ lastOp' = "constructor"
    /\ loaded' = TRUE
    /\ entries' = loadEntries(store, mode)
    /\ goals' = loadGoals(store, mode).ret
    /\ settings' = loadSettings(store, mode).ret
    /\ alternatives' = loadAlternatives(store, mode)
    /\ currentChartIndex' = 0
    /\ chartListeners' = 1
    /\ confirmModal' = NoModal
    /\ notices' = loadGoals(store, mode).msgs \o loadSettings(store, mode).msgs
    /\ UNCHANGED <<mode, store, exportFile, auxVars>>

\* The environment: the store fills up, is blocked, or works again.
SetMode(m) ==
    /\ m # mode
    /\ mode' = m
    /\ UNCHANGED <<loaded, now, memVars, store, confirmModal, chartVars, exportFile,
                   notices, lastOp, budget, auxVars>>

Fail(text) ==
    /\ notices' = <<Msg("error", text)>>
    /\ UNCHANGED <<loaded, mode, memVars, store, confirmModal, chartVars, exportFile>>

\* The fields of #quickAddForm.
Form(amountField, methodField, notesField, moodField, timeField) ==
    [amount |-> amountField, method |-> methodField, notes |-> notesField,
     mood |-> moodField, time |-> timeField]
NoForm == Form(Undefined, Undefined, Undefined, Undefined, Undefined)

addEntry(amountField, methodField, notesField, moodField, timeField) ==
    LET t == now + 1
        amount == parseFloat(amountField)
        method == methodField
        notes == sanitizeInput(Str(Trim(notesField.s)), DefaultMaxLength)
        mood == moodField
        timestamp == timeField
        entry == Entry(Num(t), amount, method, notes, mood, timestamp, IsoDate(t))
    IN
    /\ Handler("addEntry")
    /\ form' = Form(amountField, methodField, notesField, moodField, timeField)
    /\ UNCHANGED <<imported, arg, ret>>
    /\ Len(entries) < MaxEntries
    /\ IF ~Truthy(amount) \/ NumLe(amount, 0) \/ NumGt(amount, MaxAmount)
       THEN Fail("Please enter a valid amount between 0.1 and 1000 grams.")
       ELSE IF ~Truthy(method) \/ method.s \notin Methods
       THEN Fail("Please select a valid consumption method.")
       ELSE IF ~Truthy(timestamp) \/ ~isValidDate(timestamp)
       THEN Fail("Please enter a valid date and time.")
       ELSE IF Truthy(mood) /\ mood.s \notin Moods
       THEN Fail("Please select a valid mood option.")
       ELSE IF ~validateEntry(entry)
       THEN Fail("Invalid entry data. Please check your input.")
       ELSE /\ entries' = sortByTimestamp(Append(entries, entry))
            /\ store' = saveEntries(store, mode, entries').store
            /\ chartListeners' = chartListeners + 1
            /\ notices' = <<Msg("success", "Entry added successfully!")>>
            /\ UNCHANGED <<loaded, mode, goals, settings, alternatives, confirmModal,
                           currentChartIndex, exportFile>>

\* A removal that stops at the first entry with the id.
RemoveFirstWithId(list, id) ==
    IF \E i \in 1..Len(list) : list[i].id = id
    THEN LET first == CHOOSE i \in 1..Len(list) :
                          /\ list[i].id = id
                          /\ \A j \in 1..(i - 1) : list[j].id # id
         IN  SubSeq(list, 1, first - 1) \o SubSeq(list, first + 1, Len(list))
    ELSE list

RECURSIVE RemoveId(_, _)
\* this.entries.filter(entry => entry.id !== id)
RemoveId(list, id) ==
    IF list = <<>> THEN <<>>
    ELSE IF Head(list).id # id THEN <<Head(list)>> \o RemoveId(Tail(list), id)
    ELSE RemoveId(Tail(list), id)

deleteEntry(id) ==
    /\ Handler("deleteEntry")
    /\ UNCHANGED auxVars
    /\ IF ~Truthy(id) \/ typeof(id) # "number"
       THEN Fail("Invalid entry ID.")
       ELSE IF Len(RemoveId(entries, id)) = Len(entries)
       THEN Fail("Entry not found.")
       ELSE /\ entries' = RemoveId(entries, id)
            /\ store' = saveEntries(store, mode, entries').store
            /\ chartListeners' = chartListeners + 1
            /\ notices' = <<Msg("success", "Entry deleted successfully!")>>
            /\ UNCHANGED <<loaded, mode, goals, settings, alternatives, confirmModal,
                           currentChartIndex, exportFile>>

\* What saveGoal builds from the form, or the message it stops with.
goalData(goalTypeField, stashAmountField, weeklyGoalField, t) ==
    LET stashAmount == parseFloat(stashAmountField)
        weeklyGoal == parseFloat(weeklyGoalField)
    IN  IF ~Truthy(goalTypeField) \/ goalTypeField.s \notin GoalTypes
        THEN [ok |-> FALSE, text |-> "Please select a valid goal type.",
              data |-> getDefaultGoals]
        ELSE IF goalTypeField.s = stash
        THEN IF ~Truthy(stashAmount) \/ NumLe(stashAmount, 0)
             THEN [ok |-> FALSE,
                   text |-> "Please enter a valid stash amount greater than 0.",
                   data |-> getDefaultGoals]
             ELSE [ok |-> TRUE, text |-> "",
                   data |-> Goals(goalTypeField, Num(0), IsoDate(t), stashAmount,
                                  IsoDate(t))]
        ELSE IF ~Truthy(weeklyGoal) \/ NumLt(weeklyGoal, 0)
             THEN [ok |-> FALSE,
                   text |-> "Please enter a valid weekly goal amount (0 or greater).",
                   data |-> getDefaultGoals]
             ELSE [ok |-> TRUE, text |-> "",
                   data |-> Goals(goalTypeField, weeklyGoal, IsoDate(t), Num(0),
                                  Undefined)]

saveGoal(goalTypeField, stashAmountField, weeklyGoalField) ==
    LET built == goalData(goalTypeField, stashAmountField, weeklyGoalField, now + 1)
        saved == saveGoals(store, mode, built.data)
    IN
    /\ Handler("saveGoal")
    /\ UNCHANGED auxVars
    /\ IF ~built.ok THEN Fail(built.text)
       ELSE IF ~validateGoals(built.data)
       THEN Fail("Invalid goal data. Please check your input.")
       ELSE /\ goals' = built.data
            /\ store' = saved.store
            /\ notices' = saved.msgs \o <<Msg("success", "Goal saved successfully!")>>
            /\ UNCHANGED <<loaded, mode, entries, settings, alternatives, confirmModal,
                           chartVars, exportFile>>

resetGoal ==
    /\ Handler("resetGoal")
    /\ confirmModal' = showConfirmModal(Callback("resetGoal", NonDocument("null")))
    /\ notices' = <<>>
    /\ UNCHANGED <<loaded, mode, memVars, store, chartVars, exportFile, auxVars>>

clearData ==
    /\ Handler("clearData")
    /\ confirmModal' = showConfirmModal(Callback("clearData", NonDocument("null")))
    /\ notices' = <<>>
    /\ UNCHANGED <<loaded, mode, memVars, store, chartVars, exportFile, auxVars>>

exportData ==
    LET data == Document("object", TRUE, entries, goals, settings, IsoDate(now + 1))
    IN
    /\ Handler("exportData")
    /\ UNCHANGED auxVars
    /\ IF ~validateExportData(data)
       THEN Fail("Data validation failed. Cannot export.")
       ELSE /\ exportFile' = StringifyDocument(data)
            /\ notices' = <<Msg("success", "Data exported successfully!")>>
            /\ UNCHANGED <<loaded, mode, memVars, store, confirmModal, chartVars>>

\* An import that is applied as soon as the file is accepted.
importDataWithoutConfirmation(file) ==
    LET done == performImport(file.text.v, entries, goals, settings, store, mode,
                              now + 1)
    IN
    /\ Handler("importData")
    /\ UNCHANGED <<form, arg, ret>>
    /\ IF ~file.isJson \/ file.size > MaxFileSize \/ file.text.k # "json"
       THEN Fail("Please select a valid JSON file.") /\ UNCHANGED imported
       ELSE IF ~validateImportData(file.text.v)
       THEN Fail("Invalid data format. Please select a valid export file.")
            /\ UNCHANGED imported
       ELSE /\ entries' = done.entries
            /\ goals' = done.goals
            /\ settings' = done.settings
            /\ store' = done.store
            /\ notices' = done.msgs
            /\ confirmModal' = showConfirmModal(Callback("performImport", file.text.v))
            /\ imported' = IF done.applied THEN Append(imported, now + 1) ELSE imported
            /\ UNCHANGED <<loaded, mode, alternatives, chartVars, exportFile>>

\* importData: the change handler of the file input and reader.onload.
importData(file) ==
    /\ Handler("importData")
    /\ UNCHANGED auxVars
    /\ IF ~file.isJson
       THEN Fail("Please select a valid JSON file.")
       ELSE IF file.size > MaxFileSize
       THEN Fail("File is too large. Please select a file smaller than 10MB.")
       ELSE IF file.text.k # "json"
       THEN Fail("Failed to parse the file. Please check if it's a valid export file.")
       ELSE IF ~validateImportData(file.text.v)
       THEN Fail("Invalid data format. Please select a valid export file.")
       ELSE /\ confirmModal' = showConfirmModal(Callback("performImport", file.text.v))
            /\ notices' = <<>>
            /\ UNCHANGED <<loaded, mode, memVars, store, chartVars, exportFile>>

\* The click listener of #confirmButton: onConfirm(), then closeConfirmModal().
confirmResetGoal ==
    LET saved == saveGoals(store, mode, getDefaultGoals)
    IN
    /\ Handler("confirmResetGoal")
    /\ confirmModal.open /\ confirmModal.onConfirm.kind = "resetGoal"
    /\ goals' = getDefaultGoals
    /\ store' = saved.store
    /\ notices' = saved.msgs \o <<Msg("success", "Goal reset successfully!")>>
    /\ confirmModal' = [confirmModal EXCEPT !.open = FALSE]
    /\ UNCHANGED <<loaded, mode, entries, settings, alternatives, chartVars,
                   exportFile, auxVars>>

\* The three removeItem calls of clearData's callback, in one try block.
removeData(st, m) ==
    IF RemoveItemThrows(m) THEN st
    ELSE [st EXCEPT !.entries = AbsentEntries, !.goals = AbsentGoals,
                    !.alternatives = AbsentAlternatives]

confirmClearData ==
    LET removed == removeData(store, mode)
        s1 == saveEntries(removed, mode, <<>>)
        s2 == saveGoals(s1.store, mode, getDefaultGoals)
        s3 == saveAlternatives(s2.store, mode, getDefaultAlternatives)
    IN
    /\ Handler("confirmClearData")
    /\ confirmModal.open /\ confirmModal.onConfirm.kind = "clearData"
    /\ entries' = <<>>
    /\ goals' = getDefaultGoals
    /\ alternatives' = getDefaultAlternatives
    /\ store' = s3.store
    /\ notices' = s2.msgs \o <<Msg("success", "All data cleared successfully!")>>
    /\ confirmModal' = [confirmModal EXCEPT !.open = FALSE]
    /\ UNCHANGED <<loaded, mode, settings, chartVars, exportFile, auxVars>>

confirmImport ==
    LET done == performImport(confirmModal.onConfirm.doc, entries, goals, settings,
                              store, mode, now + 1)
    IN
    /\ Handler("confirmImport")
    /\ confirmModal.open /\ confirmModal.onConfirm.kind = "performImport"
    /\ entries' = done.entries
    /\ goals' = done.goals
    /\ settings' = done.settings
    /\ store' = done.store
    /\ chartListeners' = IF done.applied THEN chartListeners + 1 ELSE chartListeners
    /\ notices' = done.msgs
    /\ confirmModal' = [confirmModal EXCEPT !.open = FALSE]
    /\ imported' = IF done.applied THEN Append(imported, now + 1) ELSE imported
    /\ UNCHANGED <<loaded, mode, alternatives, currentChartIndex, exportFile, form,
                   arg, ret>>

\* The cancel button, or a click on the modal's backdrop.
closeConfirmModal ==
    /\ Handler("closeConfirmModal")
    /\ confirmModal.open
    /\ confirmModal' = [confirmModal EXCEPT !.open = FALSE]
    /\ notices' = <<>>
    /\ UNCHANGED <<loaded, mode, memVars, store, chartVars, exportFile, auxVars>>

\* The number of views the compact chart cycles through.
ChartViews == 3

\* this.currentChartIndex after cycleChartView.
cycleChartView(index) == (index + 1) % ChartViews

RECURSIVE Cycled(_, _)
\* The index after n runs of cycleChartView.
Cycled(index, n) == IF n = 0 THEN index ELSE Cycled(cycleChartView(index), n - 1)

\* A click on #compactChart: every listener attached before the click runs
\* cycleChartView once, and each run attaches one more listener in
\* updateCompactChart; those run from the next click on.
clickCompactChart ==
    /\ Handler("clickCompactChart")
    /\ currentChartIndex' = Cycled(currentChartIndex, chartListeners)
    /\ chartListeners' = chartListeners + chartListeners
    /\ notices' = IF chartListeners > 0
                  THEN <<Msg("success", "Switched to next chart view")>> ELSE <<>>
    /\ UNCHANGED <<loaded, mode, memVars, store, confirmModal, exportFile, auxVars>>

\* Refresh Graphs: the charts are destroyed and made again.
refreshGraphs ==
    /\ Handler("refreshGraphs")
    /\ chartListeners' = chartListeners + 1
    /\ notices' = <<Msg("success", "Graphs refreshed successfully!")>>
    /\ UNCHANGED <<loaded, mode, memVars, store, confirmModal, currentChartIndex,
                   exportFile, auxVars>>

markSuggestionAsTried(suggestionId) ==
    /\ Handler("markSuggestionAsTried")
    /\ IF \E i \in 1..Len(alternatives.triedItems) :
              alternatives.triedItems[i] = suggestionId
       THEN /\ notices' = <<>>
            /\ UNCHANGED <<loaded, mode, memVars, store, confirmModal, chartVars,
                           exportFile, auxVars>>
       ELSE /\ alternatives' = [alternatives EXCEPT
                                   !.triedItems = Append(@, suggestionId)]
            /\ store' = saveAlternatives(store, mode, alternatives').store
            /\ notices' = <<Msg("success", "Great job trying an alternative!")>>
            /\ UNCHANGED <<loaded, mode, entries, goals, settings, confirmModal,
                           chartVars, exportFile, auxVars>>

-----------------------------------------------------------------------------
(* What the user and the disk supply.                                      *)

\* Entries of earlier sessions.
EntryA == Entry(Num(1), Num(1), Str(joint), Str(<<>>), Str(<<>>), IsoDate(3), IsoDate(1))
EntryB == Entry(Num(2), Num(2), Str(bong), Str(<<"h", "i">>), Str(good), IsoDate(6),
                IsoDate(2))
\* A record with amount 0.
EntryZero == Entry(Num(3), Num(0), Str(joint), Str(<<>>), Str(<<>>), IsoDate(7),
                   IsoDate(3))

StashGoals == Goals(Str(stash), Num(0), IsoDate(2), Num(10), IsoDate(2))
WeeklyGoals == Goals(Str(reduce), Num(7), IsoDate(2), Num(0), Undefined)
BadGoals == Goals(Str(hookah), Num(7), IsoDate(2), Num(0), Undefined)
\* Goals with a weekly and a stash budget at once; validateGoals passes them.
BothBudgets == Goals(Str(stash), Num(7), IsoDate(2), Num(10), IsoDate(2))
EuroSettings == Settings(Num(12), Str(<<"E", "U", "R">>))
BadSettings == Settings(Num(0 - 1), Str(USD))

UsedStore ==
    [entries |-> StringifyEntries(<<EntryB, EntryA>>),
     goals |-> StringifyObject(StashGoals),
     settings |-> StringifyObject(EuroSettings),
     alternatives |-> StringifyAlternatives(Alternatives(TRUE, <<"oral-Ice cubes">>, Null)),
     backups |-> <<>>]

\* A store edited by hand: entries out of order, one of them invalid.
EditedStore ==
    [UsedStore EXCEPT !.entries = Text(EntriesDoc(TRUE, <<EntryA, EntryZero, EntryB>>)),
                      !.goals = StringifyObject(BadGoals),
                      !.settings = GarbageSettings]

InitialStores == {EmptyStore, UsedStore, EditedStore}

\* What the forms hold in the specification of the whole application.
AmountFields == {Str(<<"0">>), Str(<<"2">>)}
MethodFields == {Str(joint)}
NotesFields == {Str(<<" ", "<", "b", ">">>)}
MoodFields == {Str(<<>>)}
TimeFields == {IsoDate(5), IsoDate(20)}
GoalTypeFields == {Str(stash), Str(reduce)}
GoalAmountFields == {Str(<<"0">>), Str(<<"5">>)}
\* A suggestion that UsedStore holds as tried and EmptyStore does not.
SuggestionIds == {"oral-Ice cubes"}

\* The ids the delete buttons of the rendered entries pass, and two others.
IdArguments == {entries[i].id : i \in 1..Len(entries)} \cup {Num(0), Num(9)}

\* Documents a picked file may hold: entries oldest first, an entry with
\* amount 0, no entries array, goals or settings that fail validation, null.
DocOldestFirst ==
    Document("object", TRUE, <<EntryA, EntryB>>, WeeklyGoals, EuroSettings, IsoDate(4))
DocZeroAmount ==
    Document("object", TRUE, <<EntryB, EntryZero>>, WeeklyGoals, EuroSettings, IsoDate(4))
DocNoArray ==
    Document("object", FALSE, <<>>, WeeklyGoals, EuroSettings, IsoDate(4))
DocBadGoals ==
    Document("object", TRUE, <<EntryB>>, BadGoals, EuroSettings, IsoDate(4))
DocBadSettings ==
    Document("object", TRUE, <<EntryB>>, WeeklyGoals, BadSettings, IsoDate(4))

DocBothBudgets ==
    Document("object", TRUE, <<EntryB>>, BothBudgets, EuroSettings, IsoDate(4))

ImportDocuments ==
    {DocOldestFirst, DocZeroAmount, DocNoArray, DocBadGoals, DocBadSettings,
     DocBothBudgets, NonDocument("null")}

AllFiles ==
    {File(TRUE, 1, Text(d)) : d \in ImportDocuments}
    \cup {File(TRUE, 1, GarbageFile), File(FALSE, 1, Text(DocOldestFirst)),
          File(TRUE, MaxFileSize + 1, Text(DocOldestFirst))}

\* The last export, when there is one.
Exported == IF exportFile.k = "json" THEN {File(TRUE, 1, exportFile)} ELSE {}

-----------------------------------------------------------------------------
(* The application.                                                        *)

Unloaded ==
    /\ loaded = FALSE
    /\ now = T0
    /\ entries = <<>>
    /\ goals = getDefaultGoals
    /\ settings = getDefaultSettings
    /\ alternatives = getDefaultAlternatives
    /\ confirmModal = NoModal
    /\ currentChartIndex = 0
    /\ chartListeners = 0
    /\ exportFile = AbsentFile
    /\ notices = <<>>
    /\ lastOp = "none"
    /\ imported = <<>>

\* No direct call of a validator is under study.
NotCalled == [done |-> FALSE, threw |-> FALSE, value |-> FALSE]
NoCall ==
    /\ form = NoForm
    /\ arg = NonEntry("undefined")
    /\ ret = NotCalled

Init ==
    /\ Unloaded
    /\ NoCall
    /\ mode \in Modes
    /\ store \in InitialStores
    /\ budget = MaxOps

Next ==
    \/ Constructor
    \/ \E m \in Modes : SetMode(m)
    \/ \E a \in AmountFields, me \in MethodFields, n \in NotesFields,
          mo \in MoodFields, ti \in TimeFields : addEntry(a, me, n, mo, ti)
    \/ \E id \in IdArguments : deleteEntry(id)
    \/ \E g \in GoalTypeFields, a \in GoalAmountFields : saveGoal(g, a, a)
    \/ resetGoal
    \/ clearData
    \/ exportData
    \/ \E f \in AllFiles \cup Exported : importData(f)
    \/ confirmResetGoal
    \/ confirmClearData
    \/ confirmImport
    \/ closeConfirmModal
    \/ \E sid \in SuggestionIds : markSuggestionAsTried(sid)

Spec == Init /\ [][Next]_vars

-----------------------------------------------------------------------------
(* Long sessions of imports only, on a store with data: files, one of them *)
(* invalid, are picked and their import is confirmed, while the store may  *)
(* fill up and be freed again.                                             *)

DocNewestFirst ==
    Document("object", TRUE, <<EntryB, EntryA>>, StashGoals, getDefaultSettings,
             IsoDate(4))

ImportFiles ==
    {File(TRUE, 1, Text(d)) : d \in {DocNewestFirst, DocZeroAmount}}

InitBackups ==
    /\ Unloaded
    /\ NoCall
    /\ mode = "ok"
    /\ store = UsedStore
    /\ budget = MaxImportOps

NextBackups ==
    \/ Constructor
    \/ \E m \in {"ok", "full"} : SetMode(m)
    \/ \E f \in ImportFiles : importData(f)
    \/ confirmImport

SpecBackups == InitBackups /\ [][NextBackups]_vars

-----------------------------------------------------------------------------
(* Page loads on whatever an earlier session, another program or the user  *)
(* left in the store.                                                      *)

StoredEntries ==
    {AbsentEntries, GarbageEntries, Text(EntriesDoc(FALSE, <<>>)),
     StringifyEntries(<<EntryB, EntryA>>),
     Text(EntriesDoc(TRUE, <<EntryA, EntryZero, EntryB>>)),
     Text(EntriesDoc(TRUE, <<EntryA, EntryB, EntryA>>)),
     Text(EntriesDoc(TRUE, <<EntryZero, NonEntry("null")>>))}
StoredGoals ==
    {AbsentGoals, GarbageGoals, StringifyObject(StashGoals), StringifyObject(BadGoals),
     Text(NonGoals("null"))}
StoredSettings ==
    {AbsentSettings, GarbageSettings, StringifyObject(EuroSettings),
     StringifyObject(BadSettings)}

LoadStores ==
    {[entries |-> e, goals |-> g, settings |-> s,
      alternatives |-> StringifyAlternatives(Alternatives(TRUE, <<"oral-Ice cubes">>, Null)),
      backups |-> <<>>] :
        e \in StoredEntries, g \in StoredGoals, s \in StoredSettings}

InitLoad ==
    /\ Unloaded
    /\ NoCall
    /\ mode \in Modes
    /\ store \in LoadStores
    /\ budget = MaxOps

NextLoad ==
    \/ Constructor
    \/ \E m \in Modes : SetMode(m)

SpecLoad == InitLoad /\ [][NextLoad]_vars

-----------------------------------------------------------------------------
(* validateEntry called on one candidate.                                  *)

CandidateIds == {Undefined, Null, NaN, Num(0), Num(5), Str(<<"5">>)}
CandidateAmounts == {Undefined, NaN, Num(0 - 1), Num(0), Num(2), Str(<<"2">>)}
CandidateMethods == {Undefined, Num(1), Str(<<>>), Str(joint), Str(hookah)}
CandidateTimestamps == {Undefined, Null, Num(0), Num(3), Str(junk), IsoDate(3)}
CandidateNotes == {Undefined, Num(0), Num(1), Bool(FALSE), Str(<<"h", "i">>)}
CandidateMoods == {Undefined, Num(1), Bool(FALSE), Str(angry)}

Candidates ==
    {Entry(id, amount, method, notes, mood, timestamp, Undefined) :
        id \in CandidateIds, amount \in CandidateAmounts, method \in CandidateMethods,
        notes \in CandidateNotes, mood \in CandidateMoods,
        timestamp \in CandidateTimestamps}
    \cup {NonEntry(kind) : kind \in {"undefined", "null", "number", "string", "array"}}

\* The try block of validateEntry catches whatever its checks throw.
callValidateEntry ==
    /\ ~ret.done
    /\ ret' = [done |-> TRUE, threw |-> FALSE, value |-> validateEntry(arg)]
    /\ UNCHANGED <<loaded, now, mode, memVars, store, confirmModal, chartVars,
                   exportFile, notices, lastOp, budget, imported, form, arg>>

InitValidate ==
    /\ Unloaded
    /\ mode = "ok"
    /\ store = EmptyStore
    /\ budget = 0
    /\ form = NoForm
    /\ arg \in Candidates
    /\ ret = NotCalled

NextValidate == callValidateEntry

SpecValidate == InitValidate /\ [][NextValidate]_vars

-----------------------------------------------------------------------------
(* The add form filled in every way: amounts that are no number, zero,     *)
(* negative, at and over the limit; methods and moods empty, in and out of *)
(* the lists; times that are empty, no date, or a date.                    *)

AddAmountFields ==
    {Str(<<"a">>), Str(<<"0">>), Str(<<"-", "1">>), Str(<<"1", "0", "0", "0">>),
     Str(<<"1", "0", "0", "1">>)}
AddMethodFields == {Str(<<>>), Str(other), Str(hookah)}
AddMoodFields == {Str(<<>>), Str(good), Str(angry)}
AddTimeFields == {Str(<<>>), Str(junk), IsoDate(5), IsoDate(20)}

OneEntryStore == [UsedStore EXCEPT !.entries = StringifyEntries(<<EntryB>>)]

InitAdd ==
    /\ Unloaded
    /\ NoCall
    /\ mode \in Modes
    /\ store \in {EmptyStore, OneEntryStore}
    /\ budget = MaxAddOps

NextAdd ==
    \/ Constructor
    \/ \E a \in AddAmountFields, me \in AddMethodFields, n \in NotesFields,
          mo \in AddMoodFields, ti \in AddTimeFields : addEntry(a, me, n, mo, ti)

SpecAdd == InitAdd /\ [][NextAdd]_vars

-----------------------------------------------------------------------------
(* Sessions on a working store in which data are imported and cleared.     *)

InitClear ==
    /\ Unloaded
    /\ NoCall
    /\ mode = "ok"
    /\ store \in {EmptyStore, UsedStore}
    /\ budget = MaxClearOps

NextClear ==
    \/ Constructor
    \/ \E f \in ImportFiles : importData(f)
    \/ confirmImport
    \/ clearData
    \/ confirmClearData
    \/ closeConfirmModal

SpecClear == InitClear /\ [][NextClear]_vars

-----------------------------------------------------------------------------
(* The dashboard functions on entry lists and clocks of every kind.  The   *)
(* clock counts minutes here.                                              *)

\* The i-th entry of a family: used at minute t, 2^(i-1) grams.
StatEntry(i, t) ==
    Entry(Num(i), Num(2 ^ (i - 1)), Str(joint), Str(<<>>), Str(<<>>), IsoDate(t),
          IsoDate(t))

\* The lists of up to MaxStatEntries entries over the times of a family.
ListsOver(times) ==
    UNION {[1..n -> {StatEntry(i, times[i]) : i \in 1..Len(times)}] :
              n \in 0..MaxStatEntries}

\* Days around noon of day 3: today at midnight, at noon and a minute before
\* tomorrow, tomorrow, yesterday's last and first minute, two and three days
\* ago.
StreakNow == 3 * MinutesPerDay + 720
StreakTimes ==
    <<3 * MinutesPerDay, StreakNow, 4 * MinutesPerDay - 1, 4 * MinutesPerDay,
      3 * MinutesPerDay - 1, 2 * MinutesPerDay, MinutesPerDay + 5, 7>>

\* Times around the edges of the windows that end at WindowNow: a minute
\* before and at the start of the last 7 days and of the last 24 hours, now
\* and a minute after now.
WindowNow == 10 * MinutesPerDay + 7
WindowTimes ==
    <<WindowNow - 7 * MinutesPerDay - 1, WindowNow - 7 * MinutesPerDay,
      WindowNow - MinutesPerDay - 1, WindowNow - MinutesPerDay, WindowNow,
      WindowNow + 1>>

\* Goals of both kinds: no budget, a weekly budget of 7 grams, a stash of 10
\* grams started a minute before the last 24 hours, a stash of 10 grams with
\* no start date, a stash with no amount.
StatGoals ==
    {getDefaultGoals,
     Goals(Str(reduce), Num(7), IsoDate(WindowTimes[1]), Num(0), Undefined),
     Goals(Str(stash), Num(0), IsoDate(WindowTimes[3]), Num(10), IsoDate(WindowTimes[3])),
     Goals(Str(stash), Num(0), Null, Num(10), Null),
     Goals(Str(stash), Num(0), Null, Num(0), Null)}

\* Entries used from a hundred years to a minute before ElapsedNow, at it,
\* and a minute and a day after it.
ElapsedNow == 101 * 366 * MinutesPerDay
ElapsedTimes ==
    <<ElapsedNow - 36525 * MinutesPerDay, ElapsedNow - 36159 * MinutesPerDay,
      ElapsedNow - 366 * MinutesPerDay, ElapsedNow - 365 * MinutesPerDay,
      ElapsedNow - 31 * MinutesPerDay, ElapsedNow - 30 * MinutesPerDay,
      ElapsedNow - MinutesPerDay, ElapsedNow - MinutesPerDay + 1,
      ElapsedNow - 60, ElapsedNow - 59, ElapsedNow,
      ElapsedNow + 1, ElapsedNow + MinutesPerDay>>

Scenarios ==
    {[entries |-> l, now |-> t, goals |-> getDefaultGoals] :
        l \in ListsOver(StreakTimes), t \in {StreakNow, 3 * MinutesPerDay}}
    \cup {[entries |-> l, now |-> WindowNow, goals |-> g] :
              l \in ListsOver(WindowTimes), g \in StatGoals}
    \cup {[entries |-> l, now |-> ElapsedNow, goals |-> getDefaultGoals] :
              l \in ListsOver(ElapsedTimes)}

InitDashboard ==
    /\ loaded = TRUE
    /\ mode = "ok"
    /\ store = EmptyStore
    /\ \E sc \in Scenarios :
          /\ entries = sc.entries
          /\ now = sc.now
          /\ goals = sc.goals
    /\ settings = getDefaultSettings
    /\ alternatives = getDefaultAlternatives
    /\ confirmModal = NoModal
    /\ currentChartIndex = 0
    /\ chartListeners = 1
    /\ exportFile = AbsentFile
    /\ notices = <<>>
    /\ lastOp = "none"
    /\ budget = 0
    /\ imported = <<>>
    /\ form = NoForm
    /\ arg = NonEntry("undefined")
    /\ ret = NotCalled

\* One function of the dashboard is run on the data held and its result kept.
Shows(name, value) ==
    /\ ~ret.done
    /\ lastOp' = name
    /\ ret' = [done |-> TRUE, threw |-> FALSE, value |-> value]
    /\ UNCHANGED <<loaded, now, mode, memVars, store, confirmModal, chartVars,
                   exportFile, notices, budget, imported, form, arg>>

updateStreak == Shows("updateStreak", calculateStreak(entries, now))

showTodayStats == Shows("updateTodayStats", updateTodayStats(entries, settings, now))

showWeekStats == Shows("updateWeekStats", updateWeekStats(entries, now))

showGoalProgress == Shows("updateGoalProgress", updateGoalProgress(entries, goals, now))

updateTimeSinceLastJoint ==
    Shows("updateTimeSinceLastJoint", calculateTimeSinceLastJoint(entries, now))

NextDashboard ==
    \/ updateStreak
    \/ updateTimeSinceLastJoint
    \/ showGoalProgress
    \/ showTodayStats
    \/ showWeekStats

SpecDashboard == InitDashboard /\ [][NextDashboard]_vars

-----------------------------------------------------------------------------
(* The goal form filled in every way: every goal type and none, amounts    *)
(* that are empty, no number, negative, zero and positive.                 *)

GoalFormTypes == {Str(<<>>), Str(stash), Str(reduce), Str(maintain), Str(quit)}
GoalFormAmounts ==
    {Str(<<>>), Str(<<"a">>), Str(<<"-", "1">>), Str(<<"0">>), Str(<<"5">>)}

InitGoal ==
    /\ Unloaded
    /\ NoCall
    /\ mode = "ok"
    /\ store \in {EmptyStore, UsedStore}
    /\ budget = MaxOps

NextGoal ==
    \/ Constructor
    \/ \E g \in GoalFormTypes, sa \in GoalFormAmounts, w \in GoalFormAmounts :
          saveGoal(g, sa, w)
    \/ resetGoal
    \/ confirmResetGoal
    \/ closeConfirmModal

SpecGoal == InitGoal /\ [][NextGoal]_vars

-----------------------------------------------------------------------------
(* Notes with markup arriving by each way into the list: typed into the    *)
(* add form, found in the store at page load, and held by an imported file.*)

EntryMarkup ==
    Entry(Num(4), Num(1), Str(joint), Str(<<"<", "b", ">">>), Str(<<>>), IsoDate(4),
          IsoDate(4))
DocMarkup ==
    Document("object", TRUE, <<EntryMarkup>>, WeeklyGoals, EuroSettings, IsoDate(4))
MarkupStore == [UsedStore EXCEPT !.entries = StringifyEntries(<<EntryMarkup>>)]

InitNotes ==
    /\ Unloaded
    /\ NoCall
    /\ mode = "ok"
    /\ store \in {EmptyStore, UsedStore, MarkupStore}
    /\ budget = MaxOps

NextNotes ==
    \/ Constructor
    \/ \E a \in AmountFields, n \in NotesFields \cup {Str(<<"h", "i">>)},
          ti \in TimeFields : addEntry(a, Str(joint), n, Str(<<>>), ti)
    \/ \E d \in {DocMarkup, DocNewestFirst} : importData(File(TRUE, 1, Text(d)))
    \/ confirmImport
    \/ closeConfirmModal

SpecNotes == InitNotes /\ [][NextNotes]_vars

-----------------------------------------------------------------------------
(* Sessions of clicks on the compact chart between additions, deletions,   *)
(* refreshes of the graphs and imports.                                    *)

InitChart ==
    /\ Unloaded
    /\ NoCall
    /\ mode = "ok"
    /\ store = UsedStore
    /\ budget = MaxChartOps

NextChart ==
    \/ Constructor
    \/ clickCompactChart
    \/ refreshGraphs
    \/ addEntry(Str(<<"2">>), Str(joint), Str(<<>>), Str(<<>>), IsoDate(5))
    \/ \E id \in IdArguments : deleteEntry(id)
    \/ importData(File(TRUE, 1, Text(DocNewestFirst)))
    \/ confirmImport

SpecChart == InitChart /\ [][NextChart]_vars

-----------------------------------------------------------------------------
(* Confirmations asked for one after another: Clear All, Reset Goal and an *)
(* import, each confirmed, cancelled or left pending.                      *)

InitConfirm ==
    /\ Unloaded
    /\ NoCall
    /\ mode = "ok"
    /\ store = UsedStore
    /\ budget = MaxClearOps

NextConfirm ==
    \/ Constructor
    \/ clearData
    \/ resetGoal
    \/ importData(File(TRUE, 1, Text(DocOldestFirst)))
    \/ confirmClearData
    \/ confirmResetGoal
    \/ confirmImport
    \/ closeConfirmModal

SpecConfirm == InitConfirm /\ [][NextConfirm]_vars

-----------------------------------------------------------------------------
(* Deletions by every kind of id on lists with several entries, two of     *)
(* them with the same id, while the store works, is full or is blocked.    *)

DuplicateStore ==
    [UsedStore EXCEPT
        !.entries = Text(EntriesDoc(TRUE, <<EntryA, EntryB, EntryA, EntryMarkup>>))]

DeleteArguments ==
    {Num(0), Num(1), Num(2), Num(4), Num(9), NaN, Undefined, Str(<<"1">>)}

InitDelete ==
    /\ Unloaded
    /\ NoCall
    /\ mode \in Modes
    /\ store \in {UsedStore, DuplicateStore}
    /\ budget = MaxOps

NextDelete ==
    \/ Constructor
    \/ \E m \in Modes : SetMode(m)
    \/ \E id \in DeleteArguments : deleteEntry(id)

SpecDelete == InitDelete /\ [][NextDelete]_vars

-----------------------------------------------------------------------------
(* Properties.                                                             *)

\* Most recent first: no entry is older than the one after it.
SortedDescending(list) ==
    \A i \in 1..(Len(list) - 1) : TimeOf(list[i]) >= TimeOf(list[i + 1])

\* C1: in every reachable state the in-memory entry list is sorted descending
\* by timestamp, after the startup load and after every sequence of
\* addEntry, deleteEntry, confirmed import and confirmed clearData, whatever
\* the order of the entries in the imported document.
C1_EntriesSorted == SortedDescending(entries)

\* The texts the import is to reject: JSON that is not an object, whose
\* entries are no array, whose goals or settings fail their validators, or
\* one of whose entries fails validateEntry.
ToBeRejected(text) ==
    /\ text.k = "json"
    /\ \/ ~IsObject(text.v)
       \/ ~text.v.isArray
       \/ ~validateGoals(text.v.goals)
       \/ ~validateSettings(text.v.settings)
       \/ \E i \in 1..Len(text.v.entries) : ~validateEntry(text.v.entries[i])

\* The files that hold a document to be rejected.
RejectedFiles == {f \in AllFiles : ToBeRejected(f.text)}

\* C2: an import document that is not an object, whose entries field is not
\* an array, whose goals or settings fail their validators or one of whose
\* entries fails validateEntry (amount = 0, say) is rejected as a whole: an
\* error is reported, no confirmation is shown, and the in-memory entries,
\* goals and settings and every stored document, backups included, stay as
\* they were.
C2_RejectedImportChangesNothing ==
    [][lastOp' = "importData" =>
          \A f \in RejectedFiles \cup {g \in Exported : ToBeRejected(g.text)} :
              importData(f) =>
                  /\ UNCHANGED <<entries, goals, settings, alternatives, store,
                                 confirmModal>>
                  /\ Len(notices') = 1
                  /\ notices'[1].type = "error"]_vars

\* A document with an entry of amount 0 was picked while entries were held.
C2_Witness ==
    /\ lastOp = "importData"
    /\ notices = <<Msg("error", "Invalid data format. Please select a valid export file.")>>
    /\ Len(entries) = 2
    /\ ~confirmModal.open

-----------------------------------------------------------------------------
\* The document exportData builds now, the file it downloads, and what
\* picking that file and confirming the import leaves.
ExportNow == Document("object", TRUE, entries, goals, settings, IsoDate(now + 1))
ReimportNow ==
    performImport(StringifyDocument(ExportNow).v, entries, goals, settings, store,
                  mode, now + 3)

\* C3: in every reachable state the document exportData produces passes
\* validateExportData, is JSON that validateImportData accepts, and confirming
\* its import leaves the in-memory entries (same records, same order), goals
\* and settings equal to what they were before the export.
C3_RoundTrip ==
    loaded =>
        LET file == StringifyDocument(ExportNow)
            after == ReimportNow
        IN  /\ validateExportData(ExportNow)
            /\ file.k = "json"
            /\ validateImportData(file.v)
            /\ after.applied = ~SetItemThrows(mode)
            /\ after.entries = entries
            /\ after.goals = goals
            /\ after.settings = settings

\* An export was picked again and its import confirmed and applied, with
\* entries, a goal and settings other than the defaults in memory.
C3_Witness ==
    /\ lastOp = "confirmImport"
    /\ exportFile.k = "json"
    /\ confirmModal.onConfirm.doc = exportFile.v
    /\ imported = <<now>>
    /\ Len(entries) = 2
    /\ goals = StashGoals
    /\ settings = EuroSettings

\* C4: a confirmed import writes the backup before it replaces the data: the
\* record stored under the new backup key holds the in-memory entries, goals
\* and settings as they were just before the import; and when the backup
\* cannot be written the import is not applied: the in-memory data and the
\* stored entries, goals and settings documents stay as they were.
C4_BackupBeforeImport ==
    [][confirmImport =>
          IF SetItemThrows(mode)
          THEN /\ UNCHANGED <<entries, goals, settings, store>>
               /\ imported' = imported
          ELSE /\ now' \in DOMAIN store'.backups
               /\ store'.backups[now'] = Backup(entries, goals, settings, IsoDate(now'))
               /\ imported' = Append(imported, now')]_vars

\* An import replaced held data that differs from the imported document, and
\* the backup holds the data replaced.
C4_Witness ==
    /\ lastOp = "confirmImport"
    /\ imported = <<now>>
    /\ now \in DOMAIN store.backups
    /\ Len(store.backups[now].entries) = 2
    /\ store.backups[now].entries # entries
    /\ store.backups[now].goals # goals

\* The times of the last k imports applied.
LastImports(k) == {imported[i] : i \in (Len(imported) - k + 1)..Len(imported)}

\* C5: after any sequence of confirmed imports the store holds min(n, 5)
\* backup records, n the number of imports performed, and they are the
\* backups of the most recent imports; after 7 imports exactly 5 remain,
\* those of imports 3 to 7.
C5_BackupRetention ==
    LET n == Len(imported)
        k == IF n < 5 THEN n ELSE 5
    IN  /\ Cardinality(DOMAIN store.backups) = k
        /\ DOMAIN store.backups = LastImports(k)
        /\ n = 7 => DOMAIN store.backups = {imported[i] : i \in 3..7}

\* Seven imports were performed.
C5_Witness ==
    /\ Len(imported) = 7
    /\ Cardinality(DOMAIN store.backups) = 5
    /\ imported[1] \notin DOMAIN store.backups
    /\ imported[2] \notin DOMAIN store.backups
    /\ imported[3] \in DOMAIN store.backups

\* The handler that ran in this step said it succeeded.
Succeeded == \E i \in 1..Len(notices') : notices'[i].type = "success"

\* C6: when the store is available, after every completed mutating operation
\* (addEntry, deleteEntry, saveGoal, confirmed resetGoal, confirmed import,
\* confirmed clearData, markSuggestionAsTried) the document stored under each
\* key the operation touches equals the in-memory value: no mutation is left
\* unpersisted.
C6_WriteThrough ==
    [][(mode = "ok" /\ loaded /\ now' # now /\ Succeeded) =>
          /\ lastOp' \in {"addEntry", "deleteEntry", "confirmImport", "confirmClearData"}
                => store'.entries = StringifyEntries(entries')
          /\ lastOp' \in {"saveGoal", "confirmResetGoal", "confirmImport",
                          "confirmClearData"}
                => store'.goals = StringifyObject(goals')
          /\ lastOp' = "confirmImport" => store'.settings = StringifyObject(settings')
          /\ lastOp' \in {"markSuggestionAsTried", "confirmClearData"}
                => store'.alternatives = StringifyAlternatives(alternatives')
          /\ entries' # entries => store'.entries = StringifyEntries(entries')
          /\ goals' # goals => store'.goals = StringifyObject(goals')
          /\ settings' # settings => store'.settings = StringifyObject(settings')
          /\ alternatives' # alternatives
                => store'.alternatives = StringifyAlternatives(alternatives')]_vars

\* A suggestion was marked as tried on an available store that did not hold
\* it, and the stored alternatives hold it now.
C6_Witness ==
    /\ lastOp = "markSuggestionAsTried"
    /\ mode = "ok"
    /\ notices = <<Msg("success", "Great job trying an alternative!")>>
    /\ alternatives.triedItems = <<"oral-Ice cubes">>
    /\ store.alternatives = StringifyAlternatives(alternatives)

\* A save tells its caller that it failed: it returns something else than a
\* save that wrote.
ReportsFailure(failed, written) == failed.ret # written.ret

\* C7: when the store is unavailable (the write / delete probe fails), every
\* load (entries, goals, settings, alternatives) returns its default, and
\* every save (saveEntries, saveGoals, saveSettings, saveAlternatives) leaves
\* the store unchanged and returns a failure indication to its caller.
C7_UnavailableStore ==
    [][~isLocalStorageAvailable(mode) =>
          /\ Constructor =>
                /\ entries' = <<>>
                /\ goals' = getDefaultGoals
                /\ settings' = getDefaultSettings
                /\ alternatives' = getDefaultAlternatives
          /\ (loaded /\ now' # now) =>
                /\ saveEntries(store, mode, entries').store = store
                /\ saveGoals(store, mode, goals').store = store
                /\ saveSettings(store, mode, settings').store = store
                /\ saveAlternatives(store, mode, alternatives').store = store
                /\ ReportsFailure(saveEntries(store, mode, entries'),
                                  saveEntries(store, "ok", entries'))
                /\ ReportsFailure(saveGoals(store, mode, goals'),
                                  saveGoals(store, "ok", goals'))
                /\ ReportsFailure(saveSettings(store, mode, settings'),
                                  saveSettings(store, "ok", settings'))
                /\ ReportsFailure(saveAlternatives(store, mode, alternatives'),
                                  saveAlternatives(store, "ok", alternatives'))]_vars

RECURSIVE Count(_, _)
\* How many times r occurs in list.
Count(list, r) ==
    IF list = <<>> THEN 0
    ELSE (IF Head(list) = r THEN 1 ELSE 0) + Count(Tail(list), r)

Records(list) == {list[i] : i \in 1..Len(list)}

\* What the claim says loadEntries returns for a stored text.
LoadedAsStored(text, list) ==
    IF text.k # "json" \/ ~text.v.isArray THEN list = <<>>
    ELSE /\ SortedDescending(list)
         /\ \A r \in Records(list) \cup Records(text.v.items) :
               Count(list, r) = IF validateEntry(r) THEN Count(text.v.items, r) ELSE 0

\* C8 as stated: loadEntries returns the empty list when the stored entries
\* document is absent, unparseable or not an array; otherwise it returns
\* exactly the stored records that pass validateEntry, each once, sorted
\* descending by timestamp, and no record that fails validateEntry.
C8_LoadEntriesAsStated ==
    [][Constructor => LoadedAsStored(store.entries, entries')]_vars

\* C8: when the availability probe succeeds, loadEntries returns the empty
\* list for an absent, unparseable or non-array entries document and
\* otherwise exactly the stored records that pass validateEntry, each as
\* often as it is stored, sorted descending by timestamp; when the probe
\* fails it returns the empty list whatever is stored.
C8_LoadEntries ==
    [][Constructor =>
          IF isLocalStorageAvailable(mode)
          THEN LoadedAsStored(store.entries, entries')
          ELSE entries' = <<>>]_vars

\* The page loaded a stored array that is out of order and holds a record
\* with amount 0.
C8_Witness ==
    /\ lastOp = "constructor"
    /\ store.entries = Text(EntriesDoc(TRUE, <<EntryA, EntryZero, EntryB>>))
    /\ entries = <<EntryB, EntryA>>

\* A warning is on the screen.
Warned(msgs) == \E i \in 1..Len(msgs) : msgs[i].type = "error"

\* C9: when the stored goals (settings) document is unparseable or fails
\* validateGoals (validateSettings), loadGoals (loadSettings) returns the
\* hard-coded default (goals: weeklyAmount 0, goalType reduce, startDate
\* null, stashAmount 0, stashStartDate null; settings: pricePerGram 10,
\* currency USD) and a warning is shown to the user; a valid stored document
\* that can be read is returned unchanged.
C9_InvalidLoadWarns ==
    [][Constructor =>
          /\ (store.goals.k = "garbage"
                \/ (store.goals.k = "json" /\ ~validateGoals(store.goals.v)))
                => /\ goals' = Goals(Str(reduce), Num(0), Null, Num(0), Null)
                   /\ Warned(loadGoals(store, mode).msgs)
          /\ (store.settings.k = "garbage"
                \/ (store.settings.k = "json" /\ ~validateSettings(store.settings.v)))
                => /\ settings' = Settings(Num(10), Str(USD))
                   /\ Warned(loadSettings(store, mode).msgs)
          /\ (store.goals.k = "json" /\ validateGoals(store.goals.v)
                /\ ~GetItemThrows(mode))
                => goals' = store.goals.v
          /\ (store.settings.k = "json" /\ validateSettings(store.settings.v)
                /\ ~GetItemThrows(mode))
                => settings' = store.settings.v]_vars

\* C10: validateEntry rejects every candidate with a missing id, with an
\* amount <= 0 or not a number, with a method that is no string or with a
\* timestamp that is no valid date; it accepts every record with only the
\* fields id, amount, method and timestamp whose id is a number, amount a
\* number > 0, method a string and timestamp a valid date; it never throws.
C10_ValidateEntry ==
    ret.done =>
        /\ ~ret.threw
        /\ (\/ ~IsObject(arg)
            \/ arg.id = Undefined
            \/ typeof(arg.amount) # "number" \/ NumLe(arg.amount, 0)
            \/ typeof(arg.method) # "string"
            \/ ~isValidDate(arg.timestamp))
              => ret.value = FALSE
        /\ (/\ arg.kind = "object"
            /\ arg.notes = Undefined /\ arg.mood = Undefined /\ arg.createdAt = Undefined
            /\ arg.id.t = "number"
            /\ NumGt(arg.amount, 0)
            /\ typeof(arg.method) = "string"
            /\ isValidDate(arg.timestamp))
              => ret.value = TRUE

\* What the claim requires of an accepted form: 0 < amount <= 1000, a listed
\* method, a time that is a date, and a mood that is empty or listed.
AddAccepts(amountField, methodField, moodField, timeField) ==
    /\ parseFloat(amountField).t = "number"
    /\ parseFloat(amountField).n > 0
    /\ parseFloat(amountField).n <= 1000
    /\ methodField.s \in {joint, bong, pipe, cigarette, vape, edible, other}
    /\ DateOf(timeField).valid
    /\ moodField.s \in {<<>>, great, good, neutral, bad, terrible}

\* list without its i-th element.
Without(list, i) == SubSeq(list, 1, i - 1) \o SubSeq(list, i + 1, Len(list))

\* C11: addEntry adds a new entry if and only if 0 < amount <= 1000, the
\* method is one of the seven listed, the timestamp is a valid date and the
\* mood is empty or one of the five listed; when a check fails the operation
\* ends with one error notice and leaves the in-memory list and the store as
\* they were.
C11_AddEntryIff ==
    [][(lastOp' = "addEntry" /\ now' # now) =>
              IF AddAccepts(form'.amount, form'.method, form'.mood, form'.time)
              THEN \E i \in 1..Len(entries') :
                      /\ Without(entries', i) = entries
                      /\ entries'[i].id = Num(now')
                      /\ entries'[i].amount = parseFloat(form'.amount)
                      /\ entries'[i].method = form'.method
                      /\ entries'[i].mood = form'.mood
                      /\ entries'[i].timestamp = form'.time
              ELSE /\ entries' = entries
                   /\ store' = store
                   /\ Len(notices') = 1
                   /\ notices'[1].type = "error"]_vars

\* The form was refused for its mood after an entry of 1000 grams was added.
C11_Witness ==
    /\ lastOp = "addEntry"
    /\ notices = <<Msg("error", "Please select a valid mood option.")>>
    /\ form.mood = Str(angry)
    /\ \E i \in 1..Len(entries) : entries[i].amount = Num(1000)

\* C12: in every reachable state one budget of the goal is active: a stash
\* goal has weeklyAmount 0, and a reduce, maintain or quit goal has
\* stashAmount 0; after the startup load, saveGoal, resetGoal, a confirmed
\* import and clearData.
C12_OneActiveBudget ==
    loaded =>
        /\ goals.goalType = Str(stash) => goals.weeklyAmount = Num(0)
        /\ goals.goalType \in {Str(reduce), Str(maintain), Str(quit)}
              => goals.stashAmount = Num(0)

\* The places of the notices of one type among msgs.
NoticesOf(type, msgs) == {i \in 1..Len(msgs) : msgs[i].type = type}

\* C13: whenever a save to the store fails during addEntry, deleteEntry,
\* saveGoal, import, clearData or markSuggestionAsTried (the handler changed
\* an in-memory value and the store refused the write), exactly one warning
\* is shown and the operation does not report plain success, for the
\* entries, goals, settings and alternatives documents alike.
C13_FailedSaveWarns ==
    [][(/\ loaded /\ now' # now
        /\ SetItemThrows(mode)
        /\ lastOp' \in {"addEntry", "deleteEntry", "saveGoal", "confirmImport",
                        "confirmClearData", "markSuggestionAsTried"}
        /\ memVars' # memVars) =>
            /\ Cardinality(NoticesOf("error", notices')) = 1
            /\ NoticesOf("success", notices') = {}]_vars

\* The modal shows the confirmation of an import.
ImportPending(modal) == modal.open /\ modal.onConfirm.kind = "performImport"

\* C14: an accepted import document changes nothing until the user confirms:
\* the step that accepts it and shows the confirmation leaves the in-memory
\* entries, goals and settings and every stored document as they were; the
\* document is applied only by the click on the confirm button while its
\* confirmation is shown; and closing the modal applies nothing and leaves
\* no confirmation to click.
C14_NothingUntilConfirmed ==
    [][/\ (lastOp' = "importData" /\ now' # now)
            => UNCHANGED <<entries, goals, settings, alternatives, store, imported>>
       /\ (lastOp' = "closeConfirmModal" /\ now' # now)
            => /\ UNCHANGED <<entries, goals, settings, alternatives, store, imported>>
               /\ ~confirmModal'.open
       /\ imported' # imported
            => /\ ImportPending(confirmModal)
               /\ lastOp' = "confirmImport"
               /\ entries' = confirmModal.onConfirm.doc.entries
               /\ goals' = confirmModal.onConfirm.doc.goals
               /\ settings' = confirmModal.onConfirm.doc.settings
       /\ (~ImportPending(confirmModal) /\ lastOp' # "constructor")
            => (entries' # entries => lastOp' \in {"addEntry", "deleteEntry",
                                                   "confirmClearData"})]_vars

\* A document was accepted, its confirmation closed, and the data held are
\* still those loaded at startup.
C14_Witness ==
    /\ lastOp = "closeConfirmModal"
    /\ confirmModal.onConfirm.kind = "performImport"
    /\ confirmModal.onConfirm.doc = DocOldestFirst
    /\ ~confirmModal.open
    /\ imported = <<>>
    /\ entries = <<EntryB, EntryA>>
    /\ store = UsedStore

\* C15: Clear All removes all data: after a confirmed clearData the in-memory
\* entry list is empty, goals and alternatives are the defaults, the stored
\* entries document holds the empty list, and no other stored document, such
\* as the backup of an import, still holds earlier entries.
C15_ClearRemovesAll ==
    [][(lastOp' = "confirmClearData" /\ now' # now) =>
          /\ entries' = <<>>
          /\ goals' = getDefaultGoals
          /\ alternatives' = getDefaultAlternatives
          /\ store'.entries = Text(EntriesDoc(TRUE, <<>>))
          /\ \A k \in DOMAIN store'.backups : store'.backups[k].entries = <<>>]_vars

\* Midnight of the day of `now`, and whether an entry falls on the d-th day
\* before it.
Today == (now \div MinutesPerDay) * MinutesPerDay
UsedDaysAgo(d) ==
    \E i \in 1..Len(entries) :
        /\ TimeOf(entries[i]) >= Today - d * MinutesPerDay
        /\ TimeOf(entries[i]) < Today - d * MinutesPerDay + MinutesPerDay

UsedSince(from) ==
    {i \in 1..Len(entries) : TimeOf(entries[i]) >= from /\ TimeOf(entries[i]) <= now}

RECURSIVE GramsAt(_)
\* The amounts of the entries at the places in S, summed.
GramsAt(S) ==
    IF S = {} THEN 0
    ELSE LET i == CHOOSE j \in S : TRUE
         IN  entries[i].amount.n + GramsAt(S \ {i})

\* C17: for every entry list and every now the today count is the number of
\* entries with now - 24h <= timestamp <= now and the week count the number
\* with now - 7d <= timestamp <= now, both bounds included and entries dated
\* after now excluded; the week sum is the sum of the amounts of exactly those
\* entries and the week average is that sum divided by 7.
C17_Windows ==
    /\ (ret.done /\ lastOp = "updateTodayStats") =>
          /\ ret.value.count = Cardinality(UsedSince(now - 24 * 60))
          /\ ret.value.amount = GramsAt(UsedSince(now - 24 * 60))
    /\ (ret.done /\ lastOp = "updateWeekStats") =>
          /\ ret.value.count = Cardinality(UsedSince(now - 7 * 24 * 60))
          /\ ret.value.amount = GramsAt(UsedSince(now - 7 * 24 * 60))
          /\ ret.value.avg.num * 7 = GramsAt(UsedSince(now - 7 * 24 * 60)) * ret.value.avg.den

\* The week was summed over entries a minute before the window, at its
\* start and a minute after now: only the second counts.
C17_Witness ==
    /\ ret.done /\ lastOp = "updateWeekStats"
    /\ entries = <<StatEntry(1, WindowTimes[1]), StatEntry(2, WindowTimes[2]),
                   StatEntry(6, WindowTimes[6])>>
    /\ ret.value.count = 1
    /\ ret.value.amount = 2

\* The budget of the goal held and the grams used against it: for a stash
\* the entries from its start date on (from now on when it has none), for
\* a weekly goal those of the last 7 days.
Budget == IF goals.goalType = Str(stash) THEN goals.stashAmount.n ELSE goals.weeklyAmount.n
Used ==
    IF goals.goalType # Str(stash) THEN GramsAt(UsedSince(now - 7 * MinutesPerDay))
    ELSE GramsAt({i \in 1..Len(entries) :
                     TimeOf(entries[i]) >= (IF goals.stashStartDate.t = "isodate"
                                            THEN goals.stashStartDate.n ELSE now)})

\* C18: goal progress is clamped: with a positive budget the percentage is
\* min(used / budget * 100, 100), within 0..100 and 100 whenever used >=
\* budget; the text is the 'left in stash' / 'remaining this week' form
\* exactly when budget - used > 0 and the 'Stash depleted by' / 'Goal
\* exceeded by' form with |budget - used| otherwise; with a budget <= 0 the
\* progress is 0% and the prompt is shown.
C18_GoalProgress ==
    (ret.done /\ lastOp = "updateGoalProgress") =>
        LET view == ret.value
            stashGoal == goals.goalType = Str(stash)
        IN  IF Budget <= 0
            THEN /\ view.width.num = 0
                 /\ view.words = IF stashGoal
                                 THEN "Set a stash goal to track your weed supply"
                                 ELSE "Set a weekly goal to track progress"
            ELSE /\ view.width.num >= 0
                 /\ view.width.num <= 100 * view.width.den
                 /\ Used >= Budget => view.width.num = 100 * view.width.den
                 /\ Used < Budget => view.width.num * Budget = Used * 100 * view.width.den
                 /\ Budget - Used > 0 =>
                       /\ view.grams = Budget - Used
                       /\ view.words = IF stashGoal THEN "g left in stash"
                                       ELSE "g remaining this week"
                 /\ Budget - Used <= 0 =>
                       /\ view.grams = Used - Budget
                       /\ view.words = IF stashGoal THEN "Stash depleted by g"
                                       ELSE "Goal exceeded by g"

\* A stash of 10 grams of which 12 were used: depleted by 2 grams, 100%.
C18_Witness ==
    /\ ret.done /\ lastOp = "updateGoalProgress"
    /\ goals.goalType = Str(stash)
    /\ goals.stashAmount = Num(10)
    /\ Used = 12
    /\ ret.value = GoalView(Ratio(100, 1), 2, "Stash depleted by g")

\* The latest timestamp held, and the whole counts of the time from it to
\* now in each unit, coarsest first.
Latest == CHOOSE t \in {TimeOf(entries[i]) : i \in 1..Len(entries)} :
              \A i \in 1..Len(entries) : TimeOf(entries[i]) <= t
Elapsed == now - Latest
WholeCounts ==
    LET days == Elapsed \div (24 * 60)
    IN  <<[unit |-> "years", count |-> (days * 100) \div 36525],
          [unit |-> "months", count |-> (days * 100) \div 3044],
          [unit |-> "days", count |-> days],
          [unit |-> "hours", count |-> Elapsed \div 60],
          [unit |-> "minutes", count |-> Elapsed]>>
\* The coarsest unit with a non-zero count; minutes when every count is 0.
Coarsest ==
    IF \A k \in 1..5 : WholeCounts[k].count = 0 THEN WholeCounts[5]
    ELSE WholeCounts[CHOOSE k \in 1..5 :
                        /\ WholeCounts[k].count # 0
                        /\ \A j \in 1..(k - 1) : WholeCounts[j].count = 0]

\* C19: for a non-empty entry list calculateTimeSinceLastJoint reports the
\* time elapsed since the entry with the greatest timestamp, whatever the
\* order of the list, in the coarsest unit whose whole count is non-zero
\* (years, months, days, hours, minutes), with a value of at most 99; for
\* an empty list it reports value 0, unit 'hours' and 'No usage yet'.
C19_TimeSince ==
    (ret.done /\ lastOp = "updateTimeSinceLastJoint") =>
        IF entries = <<>>
        THEN ret.value = TimeSince(0, "hours", NonEntry("undefined"))
        ELSE /\ TimeOf(ret.value.entry) = Latest
             /\ \E i \in 1..Len(entries) : ret.value.entry = entries[i]
             /\ ret.value.unit = Coarsest.unit
             /\ ret.value.value <= 99
             /\ ret.value.value = IF Coarsest.count > 99 THEN 99 ELSE Coarsest.count

\* The field is there and holds something other than a string.
PresentNonString(v) == v # Undefined /\ typeof(v) # "string"

\* C20: validateEntry rejects every record whose notes is present and not a
\* string and every record whose mood is present and not a string, whatever
\* the non-string value is, numbers and booleans included.
C20_NotesAndMoodStrings ==
    (ret.done /\ lastOp = "none" /\ IsObject(arg)) =>
        ((PresentNonString(arg.notes) \/ PresentNonString(arg.mood)) => ret.value = FALSE)

\* C21: saveGoal with a goal type other than stash accepts every weekly
\* amount that is 0 or greater, exactly 0 included, and stores it as the
\* new goal; it rejects only negative and non-numeric amounts.
C21_WeeklyGoalFromZero ==
    [][\A g \in {reduce, maintain, quit}, sa \in GoalFormAmounts, w \in GoalFormAmounts :
          saveGoal(Str(g), sa, w) =>
              IF parseFloat(w).t = "number" /\ parseFloat(w).n >= 0
              THEN /\ goals'.goalType = Str(g)
                   /\ goals'.weeklyAmount = parseFloat(w)
                   /\ store'.goals = StringifyObject(goals')
              ELSE /\ goals' = goals
                   /\ store' = store
                   /\ Warned(notices')]_vars

\* The text holds an angle bracket.
HasMarkup(s) == \E k \in 1..Len(s) : s[k] \in {"<", ">"}

\* C22: in every reachable state no entry in memory has notes that hold
\* '<' or '>' or that are longer than 1000 characters, whether the entry
\* came from addEntry, from the load at startup or from a confirmed import.
C22_NotesSanitized ==
    \A i \in 1..Len(entries) :
        entries[i].notes.t = "string" =>
            /\ ~HasMarkup(entries[i].notes.s)
            /\ Len(entries[i].notes.s) <= DefaultMaxLength

\* The total used that a stash view was computed from: the stash less what
\* is left, or plus what it is depleted by.
ShownUsed(view) ==
    IF view.words = "g left in stash" THEN goals.stashAmount.n - view.grams
    ELSE goals.stashAmount.n + view.grams

\* C23: for a stash goal the total used is the sum of the amounts of
\* exactly the entries with stashStartDate <= timestamp <= now (the start
\* taken as now when it is null); an entry dated after now is not counted.
C23_StashUsedUpToNow ==
    (/\ ret.done /\ lastOp = "updateGoalProgress"
     /\ goals.goalType = Str(stash) /\ goals.stashAmount.n > 0) =>
        ShownUsed(ret.value) =
            GramsAt(UsedSince(IF goals.stashStartDate.t = "isodate"
                              THEN goals.stashStartDate.n ELSE now))

C25_MemoryValid ==
    /\ \A i \in 1..Len(entries) : validateEntry(entries[i])
    /\ validateGoals(goals)
    /\ validateSettings(settings)
    /\ validateExportData(ExportNow)
    /\ lastOp = "exportData" =>
          notices = <<Msg("success", "Data exported successfully!")>>

\* An export was made of two entries, one of them added in this session.
C25_Witness ==
    /\ lastOp = "exportData"
    /\ exportFile.k = "json"
    /\ Len(entries) = 2
    /\ \E i \in 1..2 : entries[i].id.n > T0

\* The valid entries the stored entries document of st holds.
StoredValid(st) ==
    IF st.entries.k = "json" /\ st.entries.v.isArray
    THEN {st.entries.v.items[i] : i \in {j \in 1..Len(st.entries.v.items) :
                                            validateEntry(st.entries.v.items[j])}}
    ELSE {}

\* C26: no silent loss of stored data: a valid entry of the stored entries
\* document leaves it only by deleteEntry of its id, a confirmed clearData
\* or a confirmed import; in particular not by an addEntry or deleteEntry
\* that follows a startup load during which the store could not be read.
C26_NoSilentLoss ==
    [][\A e \in StoredValid(store) :
          e \notin StoredValid(store') =>
              \/ lastOp' \in {"confirmClearData", "confirmImport"}
              \/ /\ lastOp' = "deleteEntry"
                 /\ \E i \in 1..Len(entries) : entries[i].id = e.id
                 /\ \A j \in 1..Len(entries') : entries'[j].id # e.id]_vars

\* C27: each click on the compact chart advances currentChartIndex by
\* exactly 1 modulo 3, after any sequence of clicks, additions, deletions,
\* chart refreshes and imports; one click handler runs per click however
\* often updateCompactChart was called, and currentChartIndex stays within
\* 0..2.
C27_ClickAdvancesByOne ==
    [][/\ currentChartIndex' \in 0..2
       /\ clickCompactChart =>
             /\ chartListeners = 1
             /\ currentChartIndex' = (currentChartIndex + 1) % 3]_vars

\* The handlers that ask for a confirmation and the callback each passes.
Requests ==
    [resetGoal |-> "resetGoal", clearData |-> "clearData", importData |-> "performImport"]
\* The clicks on the confirm button and the callback each runs.
Confirms ==
    [confirmResetGoal |-> "resetGoal", confirmClearData |-> "clearData",
     confirmImport |-> "performImport"]

\* C28: a click on the confirm button runs exactly one callback, the one
\* passed to the most recent showConfirmModal call, and runs it once: a
\* request puts its own callback on the button, nothing else changes the
\* callback, and a confirmation runs the callback on the button, has the
\* effect of that callback only and closes the modal, so that an earlier,
\* superseded request is never executed.
C28_LatestCallbackOnly ==
    [][/\ (lastOp' \in DOMAIN Requests /\ confirmModal' # confirmModal) =>
             /\ confirmModal'.open
             /\ confirmModal'.onConfirm.kind = Requests[lastOp']
       /\ (now' # now /\ lastOp' \notin DOMAIN Requests \cup {"constructor"}) =>
             confirmModal'.onConfirm = confirmModal.onConfirm
       /\ (now' # now /\ lastOp' \in DOMAIN Confirms) =>
             /\ confirmModal.open /\ ~confirmModal'.open
             /\ confirmModal.onConfirm.kind = Confirms[lastOp']
             /\ lastOp' = "confirmResetGoal" =>
                   /\ goals' = getDefaultGoals
                   /\ <<entries, settings, alternatives>>' = <<entries, settings, alternatives>>
             /\ lastOp' = "confirmClearData" =>
                   /\ entries' = <<>> /\ goals' = getDefaultGoals
                   /\ settings' = settings
             /\ lastOp' = "confirmImport" =>
                   /\ alternatives' = alternatives
                   /\ settings' = confirmModal.onConfirm.doc.settings
                   /\ goals' = confirmModal.onConfirm.doc.goals]_vars

\* Reset Goal was asked for while the confirmation of Clear All was pending
\* and was then confirmed: the goal is reset and the entries are kept.
C28_Witness ==
    /\ lastOp = "confirmResetGoal"
    /\ confirmModal.replaced = "clearData"
    /\ goals = getDefaultGoals
    /\ entries # <<>>

C30_DeleteExactly ==
    [][\A id \in DeleteArguments :
          deleteEntry(id) =>
              /\ <<goals, settings, alternatives>>' = <<goals, settings, alternatives>>
              /\ IF id.t = "number" /\ id.n # 0
                    /\ \E i \in 1..Len(entries) : entries[i].id = id
                 THEN /\ entries' = SelectSeq(entries, LAMBDA e : e.id # id)
                      /\ ~Warned(notices')
                 ELSE /\ entries' = entries
                      /\ store' = store
                      /\ Warned(notices')]_vars

\* The entry with id 4 was deleted from a list that held it between an
\* entry with id 2 and two entries with id 1: the three others are kept in
\* their order.
C30_Witness ==
    /\ lastOp = "deleteEntry"
    /\ entries = <<EntryB, EntryA, EntryA>>
    /\ notices = <<Msg("success", "Entry deleted successfully!")>>

====
